---------------------------- MODULE Spec2Model ----------------------------
(***************************************************************************)
(* Model of the multi-gateway sensor acquisition engine of                 *)
(* enhanced_sensor_system.py: the IOModuleReader threads (one per I/O      *)
(* module), the MultiIOModuleManager that owns them and its history        *)
(* buffer, and the thread that calls the manager.                          *)
(*                                                                         *)
(* Converted values are floating point in the source.  They are modelled   *)
(* exactly, as integers counting 1/Scale of a unit.  RawVals is chosen so  *)
(* that no two converted values differ by exactly the change threshold,    *)
(* the one place where binary floating point and exact arithmetic could    *)
(* order a difference and the threshold differently.                       *)
(***************************************************************************)
EXTENDS Integers, Sequences, FiniteSets, TLC

(* ------------------------------ bounds -------------------------------- *)

\* poll cycles the readers may begin, all readers together
MaxCycles == 2
\* calls of start_all / stop_all made by the owner of the manager
MaxCalls == 2
\* capacity of the history buffer (1000 in the source), scaled down
Capacity == 3
\* direct calls of on_data_received in the manager-only specification
MaxIngest == 4
\* largest timestamp of a directly ingested reading
MaxTs == 1
\* longest byte sequence handed to modbus_crc, the golden vector apart
MaxData == 3
\* most registers in a response frame
MaxRegs == 2

(* --------------------------- configuration ---------------------------- *)

None == "<None>"

\* the registered modules, in the order of the manager's dict, each with the
\* number of its sensors
SensorCounts == << 2, 2 >>

Modules == 1 .. Len(SensorCounts)

\* len(config.sensors)
SensorsOf(m) == SensorCounts[m]

LastModule == Len(SensorCounts)

\* 1/Scale is the unit in which converted values are counted: it makes
\* raw / 10, raw / 249 * 7.5 and 0.05 * raw whole numbers
Scale == 20 * 249

\* abs(value - last_value) > 0.1
CHANGE_THRESHOLD == Scale \div 10

\* sensor identifiers; the first sensor of a module is an RTC channel ("tem_")
SensorIdTable ==
    << <<"tem_a1", "p_a2", "t_a3">>,
       <<"tem_b1", "p_b2", "t_b3">>,
       <<"tem_c1", "p_c2", "t_c3">> >>

TemPrefixed == {"tem_a1", "tem_b1", "tem_c1"}

SensorTypes == {"temperature", "wind_speed", "pressure", "humidity"}

\* conversion_formula strings
LinearTwentieth  == "{\"type\": \"linear\", \"a\": 0.05, \"b\": 0}"
LinearOffset     == "{\"type\": \"linear\", \"a\": 2, \"b\": -40}"
LinearBare       == "{\"type\": \"linear\"}"
Polynomial       == "{\"type\": \"poly\", \"a\": 2, \"b\": 1}"
Untyped          == "{\"a\": 2, \"b\": 1}"
Unquoted         == "{type: linear"
JsonArray        == "[1, 2]"
JsonNull         == "null"
LinearTextA      == "{\"type\": \"linear\", \"a\": \"x\"}"
LinearTextAB     == "{\"type\": \"linear\", \"a\": \"x\", \"b\": \"y\"}"
LinearNullA      == "{\"type\": \"linear\", \"a\": null, \"b\": 1}"

\* SensorConfig of sensor i of module m.  Sensor 1 carries the linear
\* override a = 0.05, b = 0.
SensorConfig(m, i) ==
    [ sensor_id   |-> SensorIdTable[m][i],
      sensor_type |-> IF i = 2 THEN "pressure" ELSE "temperature",
      slave_addr  |-> 1,
      start_reg   |-> i - 1,
      reg_count   |-> 1,
      func_code   |-> 4,
      conversion_formula |-> IF i = 1 THEN LinearTwentieth ELSE None ]

\* raw register values a gateway may answer with.  With the linear override
\* of sensor 1 they convert to 20.0, 20.05 and 20.2.
RawVals == {400, 401, 404}

\* the register value of a gateway that answers every request alike
FixedRaw == CHOOSE r \in RawVals : \A x \in RawVals : r <= x

\* the values the gateway of module m holds for its sensor i: the registers
\* of module 1 vary, those of the other modules stay as they are
RawValsOf(m, i) ==
    IF m = 1 THEN (IF i = 1 THEN RawVals ELSE {400, 404}) ELSE {FixedRaw}

\* config.module_id of the configured modules
ModuleIdTable == << "module_a", "module_b", "module_c" >>

\* no call of the frame codec is under way
NoCall == [op |-> "none"]

\* the keys of a session none of which exists: the realtime hash and its
\* time to live, the history list, the sorted set of each channel and the
\* statistics hash
EmptyRedis ==
    [ realtime |-> << >>, realtime_ttl |-> -1, history |-> << >>,
      timeseries |-> << >>, statistics |-> << >> ]

\* the thread that calls the manager, the reader threads being the Modules
MainThread == 0

Threads == Modules \cup {MainThread}

\* the collections before the first sync: no document inserted, no
\* sync_progress document
EmptyMongo == [historical_temperature |-> << >>, sync_progress |-> << >>]

\* how one read_sensor_data call can end
ReadFailures == {"send_error", "recv_error", "timeout", "decode_error", "short"}

(* ------------------------------- state -------------------------------- *)

VARIABLES
    thread,         \* thread[m]: "new", "alive" or "finished" (threading.Thread)
    pc,             \* pc[m]: position of reader m in run()
    running,        \* running[m]: IOModuleReader.running
    sock,           \* sock[m]: "none", "unconnected" (connect failed), "connected"
                    \* or "lost" (connected, the connection has since ended)
    last_values,    \* last_values[m]: sensor_id -> last emitted value
    read_count,     \* stats["read_count"]
    success_count,  \* stats["success_count"]
    fail_count,     \* stats["fail_count"]
    read_success,   \* the local read_success of run()
    idx,            \* idx[m]: index of the sensor the for loop is at
    sensor_data,    \* sensor_data[m]: the local sensor_data of run(), if any
    all_data,       \* MultiIOModuleManager.all_data
    mainpc,         \* position of the caller of the manager
    mainIdx,        \* module the caller's for loop is at
    calls,          \* calls of the manager made so far
    mainError,      \* an exception has propagated out of a manager call
    lastCall,       \* the manager call that completed last
    queryResult,    \* arguments and result of the last get_latest_data
    ingested,       \* history: every reading ever appended, in order
    stopRequested,  \* history: stop() was called on the started reader m
    steady,         \* history: every read of m so far got FixedRaw
    cycle_emits,    \* history: callbacks made in the current cycle of m
    connects,       \* history: connect() calls of m
    initFailed,     \* history: the first connect() of m failed
    modules,        \* MultiIOModuleManager.modules, in insertion order
    data_callbacks, \* MultiIOModuleManager.data_callbacks
    delivered,      \* history: the callbacks run by the last on_data_received
    codecIn,        \* arguments of a call of the frame codec
    codecOut,       \* what that call returned, once it has been made
    redis,          \* the keys of the session in the Redis server
    storageIn,      \* arguments of a call of TemperatureDataStorage
    storageOut,     \* what that call returned, once it has been made
    lock,           \* MultiIOModuleManager.lock: the threads inside a `with
                    \* self.lock` block
    at,             \* at[t]: position of thread t in a method of the manager
    cbi,            \* cbi[m]: place of reader m in `for callback in
                    \* self.data_callbacks`
    handed,         \* history: the readings reader m called on_data_received with
    rpc,            \* position of a reader in read_sensor_data
    rxBytes,        \* the local response_bytes of read_sensor_data
    elapsed,        \* time.time() - start_time, in sleeps of the receive loop
    stream,         \* bytes the gateway has sent that recv has not returned yet
    peer,           \* "open", or "closed" once the gateway has closed the connection
    pending,        \* requests the gateway has received and not answered
    readings,       \* history: what each read_sensor_data call returned
    mongo           \* the MongoDB collections the history sync writes

vars == << thread, pc, running, sock, last_values, read_count, success_count,
           fail_count, read_success, idx, sensor_data, all_data, mainpc,
           mainIdx, calls, mainError, lastCall, queryResult, ingested,
           stopRequested, steady, cycle_emits, connects, initFailed,
           modules, data_callbacks, delivered, codecIn, codecOut,
           redis, storageIn, storageOut, lock, at, cbi, handed, rpc,
           rxBytes, elapsed, stream, peer, pending, readings, mongo >>

readerVars == << thread, pc, running, sock, last_values, read_count,
                 success_count, fail_count, read_success, idx, sensor_data,
                 stopRequested, steady, cycle_emits, connects, initFailed >>

mainVars == << mainpc, mainIdx, calls, mainError >>

codecVars == << codecIn, codecOut >>

storageVars == << redis, storageIn, storageOut >>

lockVars == << lock, at, cbi, handed >>

wireVars == << rpc, rxBytes, elapsed, stream, peer, pending, readings >>

\* the manager's lock, the byte stream of a connection and the sync target
sideVars == << lockVars, wireVars, mongo >>

\* what neither a reader nor start_all / stop_all touches
restVars == << data_callbacks, codecVars, storageVars, sideVars >>

(* ----------------------------- converter ------------------------------ *)

\* values of Python: numbers are counted in 1/Scale; a string is a sequence
\* of runs, each a text repeated a number of times
Num(n) == [kind |-> "number", num |-> n]
Str(s) == [kind |-> "string", runs |-> << [text |-> s, times |-> 1] >>]
Null == [kind |-> "null"]
List == [kind |-> "list"]
Dict(members) == [kind |-> "dict", members |-> members]

\* json.loads on the conversion_formula strings: the value, or the exception
json_loads(text) ==
    CASE text = LinearTwentieth ->
             Dict([type |-> Str("linear"), a |-> Num(Scale \div 20), b |-> Num(0)])
      [] text = LinearOffset ->
             Dict([type |-> Str("linear"), a |-> Num(2 * Scale), b |-> Num(-40 * Scale)])
      [] text = LinearBare   -> Dict([type |-> Str("linear")])
      [] text = Polynomial   ->
             Dict([type |-> Str("poly"), a |-> Num(2 * Scale), b |-> Num(Scale)])
      [] text = Untyped      -> Dict([a |-> Num(2 * Scale), b |-> Num(Scale)])
      [] text = JsonArray    -> List
      [] text = JsonNull     -> Null
      [] text = LinearTextA  -> Dict([type |-> Str("linear"), a |-> Str("x")])
      [] text = LinearTextAB ->
             Dict([type |-> Str("linear"), a |-> Str("x"), b |-> Str("y")])
      [] text = LinearNullA  ->
             Dict([type |-> Str("linear"), a |-> Null, b |-> Num(Scale)])
      [] OTHER -> [raised |-> "JSONDecodeError"]

\* formula.get(key, default); get is an attribute of a dict only
Get(formula, key, default) ==
    IF formula.kind # "dict" THEN [raised |-> "AttributeError"]
    ELSE IF key \in DOMAIN formula.members THEN formula.members[key]
    ELSE default

\* a * raw_value, raw_value being an int: a number is multiplied, a string of
\* one run is repeated
Times(a, raw_value) ==
    CASE a.kind = "number" -> Num(a.num * raw_value)
      [] a.kind = "string" ->
             [ kind |-> "string",
               runs |-> IF raw_value = 0 THEN << >>
                        ELSE << [a.runs[1] EXCEPT !.times = @ * raw_value] >> ]
      [] OTHER -> [raised |-> "TypeError"]

\* x + b
Plus(x, b) ==
    CASE x.kind = "number" /\ b.kind = "number" -> Num(x.num + b.num)
      [] x.kind = "string" /\ b.kind = "string" ->
             [kind |-> "string", runs |-> x.runs \o b.runs]
      [] OTHER -> [raised |-> "TypeError"]

\* the try block of apply_conversion_formula: << the value returned >>, or
\* << >> when the block is left without a return, by the if or by the except
linear_override(raw_value, text) ==
    LET formula == json_loads(text)
    IN  IF "raised" \in DOMAIN formula THEN << >>
        ELSE LET type == Get(formula, "type", Null)
             IN  IF "raised" \in DOMAIN type \/ type # Str("linear") THEN << >>
                 ELSE LET a == Get(formula, "a", Num(Scale))
                          b == Get(formula, "b", Num(0))
                          product == Times(a, raw_value)
                      IN  IF "raised" \in DOMAIN product THEN << >>
                          ELSE IF "raised" \in DOMAIN Plus(product, b) THEN << >>
                          ELSE << Plus(product, b) >>

\* variant: the general temperature channel without its offset of -40
default_formula_no_offset(raw_value, cfg) ==
    CASE cfg.sensor_type = "temperature" ->
             IF cfg.sensor_id \in TemPrefixed
             THEN raw_value * (Scale \div 10)
             ELSE raw_value * ((Scale * 75) \div 2490) - 30 * Scale
      [] cfg.sensor_type = "pressure"   ->
             raw_value * ((Scale * 75) \div 2490) - 30 * Scale
      [] cfg.sensor_type = "wind_speed" -> raw_value * (Scale \div 10)
      [] cfg.sensor_type = "humidity"   -> raw_value * (Scale \div 10)
      [] OTHER -> raw_value * Scale

\* the built-in formulas, in 1/Scale: raw / 10, ((raw / 249) - 4) * 7.5 - 40,
\* ((raw / 249) - 4) * 7.5 and raw * 0.1, every division being exact
default_formula(raw_value, cfg) ==
    CASE cfg.sensor_type = "temperature" ->
             IF cfg.sensor_id \in TemPrefixed
             THEN raw_value * (Scale \div 10)
             ELSE raw_value * ((Scale * 75) \div 2490) - 70 * Scale
      [] cfg.sensor_type = "pressure"   ->
             raw_value * ((Scale * 75) \div 2490) - 30 * Scale
      [] cfg.sensor_type = "wind_speed" -> raw_value * (Scale \div 10)
      [] cfg.sensor_type = "humidity"   -> raw_value * (Scale \div 10)
      [] OTHER -> raw_value * Scale

\* apply_conversion_formula: the value it returns, a number or a string
apply_conversion_formula(raw_value, cfg) ==
    LET override == IF cfg.conversion_formula \in {None, ""} THEN << >>
                    ELSE linear_override(raw_value, cfg.conversion_formula)
    IN  IF override # << >> THEN override[1]
        ELSE Num(default_formula(raw_value, cfg))

Abs(x) == IF x < 0 THEN -x ELSE x

\* EnhancedSensorData built by read_sensor_data; the formula of every sensor
\* configured here gives a number
EnhancedSensorData(cfg, raw_value, now) ==
    [ sensor_id   |-> cfg.sensor_id,
      sensor_type |-> cfg.sensor_type,
      value       |-> apply_conversion_formula(raw_value, cfg).num,
      raw_value   |-> raw_value,
      timestamp   |-> now,
      quality     |-> "good" ]

\* the change test of run(): no last value, or a difference above 0.1
ValueChanged(last, sid, value) ==
    \/ sid \notin DOMAIN last
    \/ Abs(value - last[sid]) > CHANGE_THRESHOLD

\* self.last_values[sensor_id] = value
DictSet(d, k, v) == [x \in DOMAIN d \cup {k} |-> IF x = k THEN v ELSE d[x]]

\* variant: the last value follows every read
StoreLastAlways(last, sid, value, emitted) == DictSet(last, sid, value)

\* variant: the last value is never stored
StoreLastNever(last, sid, value, emitted) == last

\* last_values after a successful read: stored only when the reading is emitted
StoreLast(last, sid, value, emitted) ==
    IF emitted THEN DictSet(last, sid, value) ELSE last

(* ---------------------------- frame codec ----------------------------- *)

\* 0xFFFF, the initial value of the checksum register
CRC_INIT == 2^16 - 1

\* 0xA001
CRC_POLY == 10 * 2^12 + 1

\* e, once v has been evaluated: the statements of a loop body run one after
\* the other, each on the values the earlier ones have left
Evaluated(v, e) == IF v = v THEN e ELSE e

RECURSIVE Xor(_, _)
\* a ^ b, on natural numbers
Xor(a, b) ==
    IF a = 0 THEN b
    ELSE IF b = 0 THEN a
    ELSE ((a + b) % 2) + 2 * Xor(a \div 2, b \div 2)

\* if crc & 0x0001: crc >>= 1; crc ^= 0xA001 / else: crc >>= 1
CrcStep(crc) ==
    IF crc % 2 = 1 THEN Xor(crc \div 2, CRC_POLY) ELSE crc \div 2

\* for _ in range(8): one step each
CrcShift(crc) ==
    CrcStep(CrcStep(CrcStep(CrcStep(CrcStep(CrcStep(CrcStep(CrcStep(crc))))))))

RECURSIVE CrcOver(_, _)
\* for byte in data: crc ^= byte, then the eight shifts
CrcOver(crc, data) ==
    IF data = << >> THEN crc
    ELSE LET before == CrcOver(crc, SubSeq(data, 1, Len(data) - 1))
         IN  Evaluated(before, CrcShift(Xor(before, data[Len(data)])))

\* variant: the high byte is returned first
modbus_crc_high_first(data) ==
    LET crc == CrcOver(CRC_INIT, data)
    IN  << (crc \div 256) % 256, crc % 256 >>

\* ModbusRTUClient.modbus_crc: [crc & 0xFF, (crc >> 8) & 0xFF]
modbus_crc(data) ==
    LET crc == CrcOver(CRC_INIT, data)
    IN  << crc % 256, (crc \div 256) % 256 >>

\* modbus_crc of temperature_redis.py, the same loop written a second time
temperature_redis_modbus_crc(data) ==
    LET crc == CrcOver(CRC_INIT, data)
    IN  << crc % 256, (crc \div 256) % 256 >>

\* bytearray(frame): every element has to be in range(256)
bytearray(frame) ==
    IF \A i \in DOMAIN frame : frame[i] \in 0 .. 255
    THEN [frame |-> frame]
    ELSE [raised |-> "ValueError"]

\* variant: the two 16-bit fields are written low byte first
build_rtu_request_low_first(slave_addr, start_reg, reg_count, func_code) ==
    LET frame == << slave_addr, func_code,
                    start_reg % 256, (start_reg \div 256) % 256,
                    reg_count % 256, (reg_count \div 256) % 256 >>
    IN  bytearray(frame \o modbus_crc(frame))

\* build_rtu_request
build_rtu_request(slave_addr, start_reg, reg_count, func_code) ==
    LET frame == << slave_addr, func_code,
                    (start_reg \div 256) % 256, start_reg % 256,
                    (reg_count \div 256) % 256, reg_count % 256 >>
    IN  bytearray(frame \o modbus_crc(frame))

\* variant: a register is assembled low byte first
RegistersLowFirst(data) ==
    [k \in 1 .. (Len(data) - 1) \div 2 |-> data[2 * k + 1] * 256 + data[2 * k]]

\* the decoding loop over data[1:], data[0] being the byte count:
\* reg_value = (data[i] << 8) | data[i + 1]
Registers(data) ==
    [k \in 1 .. (Len(data) - 1) \div 2 |-> data[2 * k] * 256 + data[2 * k + 1]]

\* variant: only the low byte of the checksum is compared
parse_rtu_response_low_byte(response) ==
    IF Len(response) < 4 THEN [error |-> "frame too short"]
    ELSE LET slave_addr == response[1]
             func_code == response[2]
             data == SubSeq(response, 3, Len(response) - 2)
             received_crc == SubSeq(response, Len(response) - 1, Len(response))
             calculated_crc == modbus_crc(SubSeq(response, 1, Len(response) - 2))
         IN  IF received_crc[1] # calculated_crc[1] THEN [error |-> "crc mismatch"]
             ELSE IF func_code \in {3, 4}
                  THEN IF Len(data) < 1 THEN [error |-> "empty data"]
                       ELSE IF Len(data) % 2 = 0 THEN [raised |-> "IndexError"]
                       ELSE [ slave_addr |-> slave_addr,
                              func_code  |-> func_code,
                              registers  |-> Registers(data),
                              valid      |-> TRUE ]
                  ELSE [error |-> "unsupported function code"]

\* variant: the function code is looked at before the checksum
parse_rtu_response_func_first(response) ==
    IF Len(response) < 4 THEN [error |-> "frame too short"]
    ELSE LET slave_addr == response[1]
             func_code == response[2]
             data == SubSeq(response, 3, Len(response) - 2)
             received_crc == SubSeq(response, Len(response) - 1, Len(response))
             calculated_crc == modbus_crc(SubSeq(response, 1, Len(response) - 2))
         IN  IF func_code \notin {3, 4} THEN [error |-> "unsupported function code"]
             ELSE IF received_crc # calculated_crc THEN [error |-> "crc mismatch"]
             ELSE IF Len(data) < 1 THEN [error |-> "empty data"]
             ELSE IF Len(data) % 2 = 0 THEN [raised |-> "IndexError"]
             ELSE [ slave_addr |-> slave_addr,
                    func_code  |-> func_code,
                    registers  |-> Registers(data),
                    valid      |-> TRUE ]

\* parse_rtu_response: the dict it returns, or the exception it raises.  The
\* loop reads data[i + 1] for every odd i < len(data), so a data part of even
\* length raises IndexError at its last byte.
parse_rtu_response(response) ==
    IF Len(response) < 4 THEN [error |-> "frame too short"]
    ELSE LET slave_addr == response[1]
             func_code == response[2]
             data == SubSeq(response, 3, Len(response) - 2)
             received_crc == SubSeq(response, Len(response) - 1, Len(response))
             calculated_crc == modbus_crc(SubSeq(response, 1, Len(response) - 2))
         IN  IF received_crc # calculated_crc THEN [error |-> "crc mismatch"]
             ELSE IF func_code \in {3, 4}
                  THEN IF Len(data) < 1 THEN [error |-> "empty data"]
                       ELSE IF Len(data) % 2 = 0 THEN [raised |-> "IndexError"]
                       ELSE [ slave_addr |-> slave_addr,
                              func_code  |-> func_code,
                              registers  |-> Registers(data),
                              valid      |-> TRUE ]
                  ELSE [error |-> "unsupported function code"]

RECURSIVE ReceiveLastChunk(_, _)
\* variant: response_bytes = chunk, what came before is dropped
ReceiveLastChunk(response_bytes, chunks) ==
    IF chunks = << >> THEN [complete |-> FALSE, bytes |-> response_bytes]
    ELSE LET joined == Head(chunks)
         IN  IF /\ Head(chunks) # << >>
                /\ Len(joined) >= 5
                /\ Len(joined) >= 1 + 1 + 1 + joined[3] + 2
             THEN [complete |-> TRUE, bytes |-> joined]
             ELSE ReceiveLastChunk(joined, Tail(chunks))

RECURSIVE Receive(_, _)
\* the receive loop of read_sensor_data: chunks are the non-empty results of
\* recv up to the timeout or the socket error; the loop leaves with a frame
\* once 5 bytes and the length announced by the third byte are there
Receive(response_bytes, chunks) ==
    IF chunks = << >> THEN [complete |-> FALSE, bytes |-> response_bytes]
    ELSE LET joined == response_bytes \o Head(chunks)
         IN  IF /\ Head(chunks) # << >>
                /\ Len(joined) >= 5
                /\ Len(joined) >= 1 + 1 + 1 + joined[3] + 2
             THEN [complete |-> TRUE, bytes |-> joined]
             ELSE Receive(joined, Tail(chunks))

\* variant: the number of registers is not looked at
EnoughRegistersAlways(registers, reg_count) == TRUE

\* not (len(registers) < sensor_config.reg_count)
EnoughRegisters(registers, reg_count) == Len(registers) >= reg_count

\* read_sensor_data at the level of frames: << >> for None.  send_ok tells
\* whether sendall returned; every exception is caught and gives None.
read_sensor_data(sensor_config, send_ok, chunks, now) ==
    LET request == build_rtu_request(sensor_config.slave_addr,
                                     sensor_config.start_reg,
                                     sensor_config.reg_count,
                                     sensor_config.func_code)
        received == Receive(<< >>, chunks)
        parsed_data == parse_rtu_response(received.bytes)
    IN  IF "raised" \in DOMAIN request \/ ~send_ok \/ ~received.complete
        THEN << >>
        ELSE IF "raised" \in DOMAIN parsed_data \/ "error" \in DOMAIN parsed_data
        THEN << >>
        ELSE IF ~EnoughRegisters(parsed_data.registers, sensor_config.reg_count)
        THEN << >>
        ELSE IF parsed_data.registers = << >>
        THEN << >>
        ELSE << EnhancedSensorData(sensor_config, parsed_data.registers[1], now) >>

(* ------------------------------ manager ------------------------------- *)

\* variant: trims one reading late
on_data_received_late(hist, r) ==
    LET a == Append(hist, r)
    IN  IF Len(a) > Capacity + 1
        THEN SubSeq(a, Len(a) - Capacity + 1, Len(a))
        ELSE a

\* variant: keeps the first Capacity readings
on_data_received_head(hist, r) ==
    LET a == Append(hist, r)
    IN  IF Len(a) > Capacity THEN SubSeq(a, 1, Capacity) ELSE a

\* variant: the reading is put in front of the list
on_data_received_front(hist, r) ==
    LET a == << r >> \o hist
    IN  IF Len(a) > Capacity
        THEN SubSeq(a, Len(a) - Capacity + 1, Len(a))
        ELSE a

\* the locked section of on_data_received: append, keep the last Capacity
on_data_received(hist, r) ==
    LET a == Append(hist, r)
    IN  IF Len(a) > Capacity
        THEN SubSeq(a, Len(a) - Capacity + 1, Len(a))
        ELSE a

\* the callbacks a client registers, in the order it registers them
CallbackTable == << "callback_a", "callback_b" >>

\* variant: the callbacks are run without a try around each
NotifyUnguarded(callbacks, raises) ==
    LET failing == {i \in DOMAIN callbacks : raises[i]}
        last == IF failing = {} THEN Len(callbacks)
                ELSE CHOOSE i \in failing : \A j \in failing : i <= j
    IN  [ invoked |-> [i \in 1 .. last |->
                          [callback |-> callbacks[i], raised |-> raises[i]]],
          propagated |-> failing # {} ]

\* variant: the callbacks are run newest first
NotifyReversed(callbacks, raises) ==
    LET n == Len(callbacks)
    IN  [ invoked |-> [i \in 1 .. n |->
                          [callback |-> callbacks[n + 1 - i],
                           raised |-> raises[n + 1 - i]]],
          propagated |-> FALSE ]

\* on_data_received after the locked section: every callback of
\* data_callbacks is called in a try of its own; raises[i] tells whether the
\* i-th callback raises an Exception.  invoked lists the calls made,
\* propagated tells whether an exception leaves on_data_received.
NotifyCallbacks(callbacks, raises) ==
    [ invoked |-> [i \in 1 .. Len(callbacks) |->
                      [callback |-> callbacks[i], raised |-> raises[i]]],
      propagated |-> FALSE ]

\* Python truthiness of an optional string argument
Truthy(x) == x # None /\ x # ""

RECURSIVE SelectSeqBy(_, _, _)
\* [d for d in data if d[field] == wanted]
SelectSeqBy(data, field, wanted) ==
    IF data = << >> THEN << >>
    ELSE LET rest == SelectSeqBy(Tail(data), field, wanted)
         IN  IF Head(data)[field] = wanted THEN << Head(data) >> \o rest ELSE rest

\* one insertion of the stable descending sort
InsertDesc(sorted, x) ==
    LET k == Cardinality({i \in 1 .. Len(sorted) : sorted[i].timestamp >= x.timestamp})
    IN  SubSeq(sorted, 1, k) \o << x >> \o SubSeq(sorted, k + 1, Len(sorted))

\* one insertion of the stable ascending sort
InsertAsc(sorted, x) ==
    LET k == Cardinality({i \in 1 .. Len(sorted) : sorted[i].timestamp <= x.timestamp})
    IN  SubSeq(sorted, 1, k) \o << x >> \o SubSeq(sorted, k + 1, Len(sorted))

RECURSIVE SortAsc(_)
\* variant: the sort without reverse=True
SortAsc(data) ==
    IF data = << >> THEN << >>
    ELSE InsertAsc(SortAsc(SubSeq(data, 1, Len(data) - 1)), data[Len(data)])

RECURSIVE SortDesc(_)
\* data.sort(key=timestamp, reverse=True): stable, ties keep their order
SortDesc(data) ==
    IF data = << >> THEN << >>
    ELSE InsertDesc(SortDesc(SubSeq(data, 1, Len(data) - 1)), data[Len(data)])

\* self.all_data after get_latest_data: the call sorts a copy
BufferAfterQuery(hist, sorted) == hist

\* get_latest_data: the returned list and the buffer the call leaves behind
get_latest_data(hist, sensor_id, sensor_type) ==
    LET d0 == hist
        d1 == IF Truthy(sensor_id) THEN SelectSeqBy(d0, "sensor_id", sensor_id) ELSE d0
        d2 == IF sensor_type # None THEN SelectSeqBy(d1, "sensor_type", sensor_type) ELSE d1
        d3 == SortDesc(d2)
    IN  [ result |-> d3, all_data |-> BufferAfterQuery(hist, SortDesc(hist)) ]

(* ------------------------------ reader -------------------------------- *)

\* datetime.now() in reader m: time is counted in poll intervals, every reader
\* of the model polling at the same interval
Now(m) == read_count[m]

RECURSIVE SumUpTo(_, _)
\* f[1] + ... + f[n]
SumUpTo(f, n) == IF n = 0 THEN 0 ELSE f[n] + SumUpTo(f, n - 1)

\* poll cycles begun so far
CyclesBegun == SumUpTo(read_count, LastModule)

\* self.sock after connect(): the socket is assigned before it is connected
connect(ok) == IF ok THEN "connected" ELSE "unconnected"

\* variant: the loop is entered whatever connect() returned
AfterFirstConnectRetry(ok) == "loop"

\* run() after the first connect(): enter the loop, or return
AfterFirstConnect(ok) == IF ok THEN "loop" ELSE "done"

\* where run() goes after the sensor at index i has been handled
NextSensor(m, i) == IF i = SensorsOf(m) THEN "sleep" ELSE "sensors"

\* variant: a failed read is followed by the next sensor
AfterFailedReadContinue(m, i) == "sensors"

\* where run() goes after read_sensor_data returned None: read_success =
\* False, break
AfterFailedRead(m, i) == "sleep"

\* variant: the sensors are gone through last first
SensorAtReversed(m, i) == SensorConfig(m, SensorsOf(m) + 1 - i)

\* for sensor_config in self.config.sensors: the i-th sensor_config
SensorAt(m, i) == SensorConfig(m, i)

\* variant: every completed cycle is counted as a success
AccountedAsSuccess(m, cycle_over, ok) ==
    /\ success_count' = [success_count EXCEPT ![m] =
                             IF cycle_over THEN @ + 1 ELSE @]
    /\ fail_count' = fail_count

\* variant: a failed cycle is not counted
AccountedSuccessOnly(m, cycle_over, ok) ==
    /\ success_count' = [success_count EXCEPT ![m] =
                             IF cycle_over /\ ok THEN @ + 1 ELSE @]
    /\ fail_count' = fail_count

\* run(), at the end of a cycle: success_count += 1 or fail_count += 1
Accounted(m, cycle_over, ok) ==
    /\ success_count' = [success_count EXCEPT ![m] =
                             IF cycle_over /\ ok THEN @ + 1 ELSE @]
    /\ fail_count' = [fail_count EXCEPT ![m] =
                          IF cycle_over /\ ~ok THEN @ + 1 ELSE @]

\* positions at which a reader is inside a blocking call
Blocking == {"connect", "sensors", "sleep"}

\* the readers and the manager as their constructors leave them
Constructed ==
    /\ thread = [m \in Modules |-> "new"]
    /\ pc = [m \in Modules |-> "idle"]
    /\ running = [m \in Modules |-> FALSE]
    /\ sock = [m \in Modules |-> "none"]
    /\ last_values = [m \in Modules |-> << >>]
    /\ read_count = [m \in Modules |-> 0]
    /\ success_count = [m \in Modules |-> 0]
    /\ fail_count = [m \in Modules |-> 0]
    /\ read_success = [m \in Modules |-> TRUE]
    /\ idx = [m \in Modules |-> 1]
    /\ sensor_data = [m \in Modules |-> << >>]
    /\ all_data = << >>
    /\ mainpc = "idle"
    /\ mainIdx = 1
    /\ calls = 0
    /\ mainError = FALSE
    /\ lastCall = "none"
    /\ queryResult = [sensor_id |-> None, sensor_type |-> None, result |-> << >>]
    /\ ingested = << >>
    /\ stopRequested = [m \in Modules |-> FALSE]
    /\ steady = [m \in Modules |-> TRUE]
    /\ cycle_emits = [m \in Modules |-> 0]
    /\ connects = [m \in Modules |-> 0]
    /\ initFailed = [m \in Modules |-> FALSE]
    /\ data_callbacks = << >>
    /\ delivered = << >>
    /\ codecOut = << >>
    /\ storageOut = << >>
    /\ lock = {}
    /\ at = [t \in Threads |-> "idle"]
    /\ cbi = [m \in Modules |-> 1]
    /\ handed = [m \in Modules |-> << >>]
    /\ rpc = "idle"
    /\ rxBytes = << >>
    /\ elapsed = 0
    /\ stream = << >>
    /\ peer = "open"
    /\ pending = << >>
    /\ readings = << >>
    /\ mongo = EmptyMongo

\* the manager after add_module of every configured module
Init ==
    /\ Constructed
    /\ modules = [m \in Modules |-> [module_id |-> ModuleIdTable[m], reader |-> m]]
    /\ codecIn = NoCall
    /\ storageIn = NoCall
    /\ redis = EmptyRedis

\* run(): self.running = True
RunBegin(m) ==
    /\ pc[m] = "run"
    /\ running' = [running EXCEPT ![m] = TRUE]
    /\ pc' = [pc EXCEPT ![m] = "connect"]
    /\ UNCHANGED << thread, sock, last_values, read_count, success_count,
                    fail_count, read_success, idx, sensor_data,
                    stopRequested, steady, cycle_emits, connects, initFailed,
                    all_data, ingested, lastCall, queryResult, mainVars,
                    modules, delivered, restVars >>

\* run(): the first connect(); a failure ends the thread
InitialConnect(m) ==
    /\ pc[m] = "connect"
    /\ \E ok \in BOOLEAN :
          /\ sock' = [sock EXCEPT ![m] = connect(ok)]
          /\ pc' = [pc EXCEPT ![m] = AfterFirstConnect(ok)]
          /\ thread' = [thread EXCEPT ![m] =
                           IF AfterFirstConnect(ok) = "done" THEN "finished" ELSE @]
          /\ initFailed' = [initFailed EXCEPT ![m] = ~ok]
    /\ connects' = [connects EXCEPT ![m] = @ + 1]
    /\ UNCHANGED << running, last_values, read_count, success_count,
                    fail_count, read_success, idx, sensor_data,
                    stopRequested, steady, cycle_emits,
                    all_data, ingested, lastCall, queryResult, mainVars,
                    modules, delivered, restVars >>

\* while self.running: count the cycle; reconnect when self.sock is None
BeginCycle(m) ==
    /\ pc[m] = "loop"
    /\ running[m]
    /\ CyclesBegun < MaxCycles
    /\ read_count' = [read_count EXCEPT ![m] = @ + 1]
    /\ cycle_emits' = [cycle_emits EXCEPT ![m] = 0]
    /\ idx' = [idx EXCEPT ![m] = 1]
    /\ IF sock[m] = "none"
       THEN \E ok \in BOOLEAN :
               /\ sock' = [sock EXCEPT ![m] = connect(ok)]
               /\ read_success' = [read_success EXCEPT ![m] = ok]
               /\ pc' = [pc EXCEPT ![m] = IF ok THEN "sensors" ELSE "sleep"]
               /\ connects' = [connects EXCEPT ![m] = @ + 1]
               /\ Accounted(m, ~ok, FALSE)
       ELSE /\ read_success' = [read_success EXCEPT ![m] = TRUE]
            /\ pc' = [pc EXCEPT ![m] = "sensors"]
            /\ UNCHANGED << sock, connects, success_count, fail_count >>
    /\ UNCHANGED << thread, running, last_values,
                    sensor_data, stopRequested, steady, initFailed,
                    all_data, ingested, lastCall, queryResult, mainVars,
                    modules, delivered, restVars >>

\* read_sensor_data(sensor_config): a reading, or None on any failure
ReadSensor(m) ==
    /\ pc[m] = "sensors"
    /\ \/ \E failure \in ReadFailures :
             /\ sock[m] \in {"none", "unconnected"} => failure = "send_error"
             /\ sock[m] = "lost" => failure \in {"send_error", "recv_error", "timeout"}
             /\ read_success' = [read_success EXCEPT ![m] = FALSE]
             /\ pc' = [pc EXCEPT ![m] = AfterFailedRead(m, idx[m])]
             /\ steady' = [steady EXCEPT ![m] = FALSE]
             /\ Accounted(m, TRUE, FALSE)
             /\ UNCHANGED sensor_data
       \/ \E raw_value \in RawValsOf(m, idx[m]) :
             /\ sock[m] = "connected"
             /\ sensor_data' = [sensor_data EXCEPT ![m] =
                   << EnhancedSensorData(SensorAt(m, idx[m]), raw_value, Now(m)) >>]
             /\ steady' = [steady EXCEPT ![m] = @ /\ raw_value = FixedRaw]
             /\ pc' = [pc EXCEPT ![m] = "detect"]
             /\ UNCHANGED << read_success, success_count, fail_count >>
    /\ UNCHANGED << thread, running, sock, last_values, read_count,
                    idx, stopRequested, cycle_emits,
                    connects, initFailed,
                    all_data, ingested, lastCall, queryResult, mainVars,
                    modules, delivered, restVars >>

\* run(): the change test, the callback into the manager and last_values.
\* An exception leaving the callback is caught by the except of run(): the
\* cycle is counted as failed and the socket is closed.
DetectChange(m) ==
    /\ pc[m] = "detect"
    /\ \E raises \in [DOMAIN data_callbacks -> BOOLEAN] :
          LET r == sensor_data[m][1]
              emit == ValueChanged(last_values[m], r.sensor_id, r.value)
              n == NotifyCallbacks(data_callbacks, raises)
              caught == emit /\ n.propagated
          IN  /\ last_values' = [last_values EXCEPT ![m] =
                                    StoreLast(@, r.sensor_id, r.value, emit /\ ~caught)]
              /\ IF emit
                 THEN /\ all_data' = on_data_received(all_data, r)
                      /\ ingested' = Append(ingested, r)
                      /\ delivered' = << [reading |-> r, invoked |-> n.invoked] >>
                      /\ cycle_emits' = [cycle_emits EXCEPT ![m] = @ + 1]
                 ELSE UNCHANGED << all_data, ingested, delivered, cycle_emits >>
              /\ sock' = [sock EXCEPT ![m] = IF caught THEN "none" ELSE @]
              /\ read_success' = [read_success EXCEPT ![m] =
                                     IF caught THEN FALSE ELSE @]
              /\ pc' = [pc EXCEPT ![m] =
                           IF caught THEN "sleep" ELSE NextSensor(m, idx[m])]
              /\ Accounted(m, caught \/ idx[m] = SensorsOf(m),
                           ~caught /\ read_success[m])
    /\ sensor_data' = [sensor_data EXCEPT ![m] = << >>]
    /\ idx' = [idx EXCEPT ![m] = IF @ = SensorsOf(m) THEN @ ELSE @ + 1]
    /\ UNCHANGED << thread, running, read_count, stopRequested, steady,
                    connects, initFailed, lastCall, queryResult, mainVars,
                    modules, restVars >>

\* time.sleep(read_interval)
Sleep(m) ==
    /\ pc[m] = "sleep"
    /\ pc' = [pc EXCEPT ![m] = "loop"]
    /\ UNCHANGED << thread, running, sock, last_values, read_count,
                    success_count, fail_count, read_success, idx, sensor_data, stopRequested, steady, cycle_emits, connects,
                    initFailed, all_data, ingested, lastCall, queryResult,
                    mainVars, modules, delivered, restVars >>

\* the loop sees running = False: disconnect() and the thread ends
ExitLoop(m) ==
    /\ pc[m] = "loop"
    /\ ~running[m]
    /\ sock' = [sock EXCEPT ![m] = "none"]
    /\ pc' = [pc EXCEPT ![m] = "done"]
    /\ thread' = [thread EXCEPT ![m] = "finished"]
    /\ UNCHANGED << running, last_values, read_count, success_count,
                    fail_count, read_success, idx, sensor_data,
                    stopRequested, steady, cycle_emits, connects, initFailed,
                    all_data, ingested, lastCall, queryResult, mainVars,
                    modules, delivered, restVars >>

(* ------------------------- caller of the manager ---------------------- *)

readerState == << pc, sock, last_values, read_count, success_count, fail_count,
                  read_success, idx, sensor_data, steady, cycle_emits,
                  connects, initFailed >>

managerData == << all_data, ingested, queryResult >>

\* the caller is inside `call`, or enters it now
InCall(call) ==
    \/ mainpc = call
    \/ mainpc = "idle" /\ calls < MaxCalls

\* calls made once this step is taken
Called == IF mainpc = "idle" THEN calls + 1 ELSE calls

\* the caller's for loop over self.modules moves on, or the call returns
LoopOn(call) ==
    IF mainIdx >= Len(modules)
    THEN /\ mainpc' = "idle"
         /\ mainIdx' = 1
         /\ lastCall' = call
    ELSE /\ mainpc' = call
         /\ mainIdx' = mainIdx + 1
         /\ UNCHANGED lastCall

\* Thread.start(): a thread object can be started once
ThreadStart(state) ==
    IF state = "new" THEN "alive" ELSE "RuntimeError"

\* start_all(): if not reader.is_alive(): reader.start()
StartAllStep ==
    /\ InCall("start_all")
    /\ calls' = Called
    /\ LET m == modules[mainIdx].reader IN
       IF modules = << >> \/ thread[m] = "alive"
       THEN /\ LoopOn("start_all")
            /\ UNCHANGED << thread, pc, mainError >>
       ELSE IF ThreadStart(thread[m]) = "alive"
            THEN /\ thread' = [thread EXCEPT ![m] = "alive"]
                 /\ pc' = [pc EXCEPT ![m] = "run"]
                 /\ LoopOn("start_all")
                 /\ UNCHANGED mainError
            ELSE /\ mainError' = TRUE
                 /\ mainpc' = "idle"
                 /\ mainIdx' = 1
                 /\ lastCall' = "error"
                 /\ UNCHANGED << thread, pc >>
    /\ UNCHANGED << running, stopRequested, sock, last_values,
                    read_count, success_count, fail_count, read_success, idx,
                    sensor_data, steady, cycle_emits, connects,
                    initFailed, managerData, modules, delivered, restVars >>

\* stop(), up to the join: self.running = False
stop(m) ==
    /\ running' = [running EXCEPT ![m] = FALSE]
    /\ stopRequested' = [stopRequested EXCEPT ![m] = @ \/ thread[m] = "alive"]

\* stop() as its caller sees it, the thread having ended within the join or
\* not: the value returned, the exception raised and the lines logged
stop_outcome(exited) == [returned |-> None, raised |-> None, logged |-> << >>]

\* stop_all(): reader.stop() for every reader; stop() joins a live thread
StopStep ==
    /\ InCall("stop_all")
    /\ calls' = Called
    /\ LET m == modules[mainIdx].reader IN
       IF modules = << >>
       THEN /\ LoopOn("stop_all")
            /\ UNCHANGED << running, stopRequested >>
       ELSE /\ stop(m)
            /\ IF thread[m] = "alive"
               THEN /\ mainpc' = "join"
                    /\ UNCHANGED << mainIdx, lastCall >>
               ELSE LoopOn("stop_all")
    /\ UNCHANGED << mainError, thread, readerState, managerData,
                    modules, delivered, restVars >>

\* module_id arguments of add_module and remove_module
ModuleIds == {ModuleIdTable[m] : m \in Modules}

\* position of module_id in self.modules, 0 if it is not a key
PositionOf(module_id) ==
    IF \E i \in DOMAIN modules : modules[i].module_id = module_id
    THEN CHOOSE i \in DOMAIN modules : modules[i].module_id = module_id
    ELSE 0

\* self.modules after del self.modules[module_id], the key being at position k
Without(k) == SubSeq(modules, 1, k - 1) \o SubSeq(modules, k + 1, Len(modules))

\* reader objects not constructed yet
FreeReaders ==
    {m \in Modules : thread[m] = "new" /\ \A i \in DOMAIN modules : modules[i].reader # m}

\* IOModuleReader(config, self.on_data_received): the next reader object
NewReader == CHOOSE m \in FreeReaders : \A x \in FreeReaders : m <= x

\* remove_module after reader.stop(): del self.modules[module_id]
Removed(k) ==
    /\ modules' = Without(k)
    /\ mainpc' = "idle"
    /\ mainIdx' = 1
    /\ lastCall' = "remove_module"
    /\ UNCHANGED mainError

\* add_module after the replaced reader, if any, is gone: the new reader is
\* registered, then the logging line reads config.config and raises
\* AttributeError
Added(module_id, others) ==
    /\ modules' = Append(others, [module_id |-> module_id, reader |-> NewReader])
    /\ mainError' = TRUE
    /\ mainpc' = "idle"
    /\ mainIdx' = 1
    /\ lastCall' = "add_module"

\* remove_module(module_id): nothing if module_id is not a key
RemoveModuleStep ==
    /\ mainpc = "idle"
    /\ calls < MaxCalls
    /\ calls' = calls + 1
    /\ \E module_id \in ModuleIds :
          LET k == PositionOf(module_id)
              m == modules[k].reader
          IN  IF k = 0
              THEN /\ lastCall' = "remove_module"
                   /\ UNCHANGED << running, stopRequested, modules, mainpc,
                                   mainIdx, mainError >>
              ELSE /\ stop(m)
                   /\ IF thread[m] = "alive"
                      THEN /\ mainpc' = "join_remove"
                           /\ mainIdx' = k
                           /\ UNCHANGED << modules, lastCall, mainError >>
                      ELSE Removed(k)
    /\ UNCHANGED << thread, readerState, managerData, delivered, restVars >>

\* add_module(config): a registered module_id is removed first
AddModuleStep ==
    /\ mainpc = "idle"
    /\ calls < MaxCalls
    /\ FreeReaders # {}
    /\ calls' = calls + 1
    /\ \E module_id \in ModuleIds :
          LET k == PositionOf(module_id)
              m == modules[k].reader
          IN  IF k = 0
              THEN /\ Added(module_id, modules)
                   /\ UNCHANGED << running, stopRequested >>
              ELSE /\ stop(m)
                   /\ IF thread[m] = "alive"
                      THEN /\ mainpc' = "join_add"
                           /\ mainIdx' = k
                           /\ UNCHANGED << modules, lastCall, mainError >>
                      ELSE Added(module_id, Without(k))
    /\ UNCHANGED << thread, readerState, managerData, delivered, restVars >>

\* positions of the caller inside the join of stop()
Joining == {"join", "join_remove", "join_add"}

\* the caller goes on after the join of stop()
AfterJoin ==
    CASE mainpc = "join" ->
            /\ LoopOn("stop_all")
            /\ UNCHANGED << modules, mainError >>
      [] mainpc = "join_remove" -> Removed(mainIdx)
      [] mainpc = "join_add" ->
            Added(modules[mainIdx].module_id, Without(mainIdx))

\* join(timeout=5) returns because the thread has ended
JoinReturn ==
    /\ mainpc \in Joining
    /\ thread[modules[mainIdx].reader] # "alive"
    /\ AfterJoin
    /\ UNCHANGED << calls, thread, running, stopRequested,
                    readerState, managerData, delivered, restVars >>

\* join(timeout=5) returns on its timeout: the thread is still inside a
\* blocking call (connect, a sensor read or the interval sleep)
JoinTimeout ==
    /\ mainpc \in Joining
    /\ thread[modules[mainIdx].reader] = "alive"
    /\ pc[modules[mainIdx].reader] \in Blocking
    /\ AfterJoin
    /\ UNCHANGED << calls, thread, running, stopRequested,
                    readerState, managerData, delivered, restVars >>

\* add_data_callback(callback)
AddCallback ==
    /\ Len(data_callbacks) < Len(CallbackTable)
    /\ data_callbacks' = Append(data_callbacks, CallbackTable[Len(data_callbacks) + 1])
    /\ UNCHANGED << readerVars, mainVars, managerData, lastCall, modules,
                    delivered, codecVars, storageVars, sideVars >>

\* IOModuleReader.get_stats() of reader m
get_stats(m) ==
    [ thread_alive  |-> thread[m] = "alive",
      connected     |-> sock[m] # "none",
      read_count    |-> read_count[m],
      success_count |-> success_count[m],
      fail_count    |-> fail_count[m] ]

\* MultiIOModuleManager.get_stats()
manager_get_stats ==
    [ total_modules     |-> Len(modules),
      module_stats      |-> [i \in DOMAIN modules |-> get_stats(modules[i].reader)],
      total_data_points |-> Len(all_data) ]

Next ==
    \/ StartAllStep
    \/ StopStep
    \/ JoinReturn
    \/ JoinTimeout
    \/ \E m \in Modules :
          \/ RunBegin(m)
          \/ InitialConnect(m)
          \/ BeginCycle(m)
          \/ ReadSensor(m)
          \/ DetectChange(m)
          \/ Sleep(m)
          \/ ExitLoop(m)

Spec == Init /\ [][Next]_vars

(* ------------- one module registered, clients registering ------------- *)

\* the manager after add_module of the first configured module
InitOne ==
    /\ Constructed
    /\ modules = << [module_id |-> ModuleIdTable[1], reader |-> 1] >>
    /\ codecIn = NoCall
    /\ storageIn = NoCall
    /\ redis = EmptyRedis

NextFanout == Next \/ AddCallback

\* a reader polling while callbacks are being registered
SpecFanout == InitOne /\ [][NextFanout]_vars

NextLifecycle == Next \/ AddModuleStep \/ RemoveModuleStep

\* modules being added, replaced and removed while readers poll
SpecLifecycle == InitOne /\ [][NextLifecycle]_vars

\* the gateway or the network ends the connection of reader m: the socket
\* object stays in self.sock
ConnectionLost(m) ==
    /\ sock[m] = "connected"
    /\ pc[m] \in {"loop", "sensors", "sleep"}
    /\ sock' = [sock EXCEPT ![m] = "lost"]
    /\ UNCHANGED << thread, pc, running, last_values, read_count, success_count,
                    fail_count, read_success, idx, sensor_data,
                    stopRequested, steady, cycle_emits, connects, initFailed,
                    all_data, ingested, lastCall, queryResult, mainVars,
                    modules, delivered, restVars >>

NextReconnect == Next \/ \E m \in Modules : ConnectionLost(m)

\* a reader polling a gateway whose connection can end at any time
SpecReconnect == InitOne /\ [][NextReconnect]_vars

(* ------------------- the manager called directly ---------------------- *)

\* readings handed to on_data_received by a direct caller
DirectReadings ==
    { EnhancedSensorData(SensorConfig(1, i), FixedRaw, ts) :
          i \in 1 .. SensorsOf(1), ts \in 0 .. MaxTs }

\* sensor_id arguments of get_latest_data: None (the default), an empty
\* string, or an identifier
QuerySensorIds == {None, "", "tem_a1", "p_a2"}

\* sensor_type arguments of get_latest_data: None or a SensorType member
QuerySensorTypes == {None, "temperature", "pressure"}

NoQuery == [sensor_id |-> None, sensor_type |-> None, result |-> << >>]

\* on_data_received(sensor_data), called with any reading
DirectIngest ==
    /\ Len(ingested) < MaxIngest
    /\ \E r \in DirectReadings, raises \in [DOMAIN data_callbacks -> BOOLEAN] :
          /\ all_data' = on_data_received(all_data, r)
          /\ ingested' = Append(ingested, r)
          /\ delivered' = << [reading |-> r,
                              invoked |-> NotifyCallbacks(data_callbacks, raises).invoked] >>
    /\ lastCall' = "ingest"
    /\ queryResult' = NoQuery
    /\ UNCHANGED << readerVars, mainVars, modules, restVars >>

\* get_latest_data(sensor_id, sensor_type)
Query ==
    /\ \E sid \in QuerySensorIds, st \in QuerySensorTypes :
          LET out == get_latest_data(all_data, sid, st)
          IN  /\ queryResult' = [sensor_id |-> sid, sensor_type |-> st,
                                 result |-> out.result]
              /\ all_data' = out.all_data
    /\ lastCall' = "query"
    /\ UNCHANGED << ingested, readerVars, mainVars,
                    modules, delivered, restVars >>

NextManager == DirectIngest \/ Query

SpecManager == Init /\ [][NextManager]_vars

(* ------------- the manager called from several threads ---------------- *)

\* the k-th reading reader m calls self.data_callback with
Reading(m, k) == EnhancedSensorData(SensorConfig(m, 1), FixedRaw, k)

\* variant: the lock is not released at the end of the with block
with_exit_kept(t) == lock

\* the end of a `with self.lock:` block of thread t: the lock is released
with_exit(t) == lock \ {t}

\* what a step of a thread inside a method of the manager leaves alone
lockFrame == << readerVars, mainpc, mainIdx, mainError, lastCall, queryResult,
                modules, delivered, codecVars, storageVars, wireVars, mongo >>

\* reader m calls self.data_callback(sensor_data): on_data_received begins
Ingest(m) ==
    /\ at[m] = "idle"
    /\ SumUpTo([x \in Modules |-> Len(handed[x])], LastModule) < MaxIngest
    /\ handed' = [handed EXCEPT ![m] = Append(@, Reading(m, Len(@) + 1))]
    /\ at' = [at EXCEPT ![m] = "acquire"]
    /\ UNCHANGED << lockFrame, all_data, ingested, data_callbacks, calls, lock, cbi >>

\* `with self.lock:` is entered: the thread waits until the lock is free.
\* on_data_received, get_latest_data called by a callback, get_latest_data
\* called by the main thread
Acquire(t) ==
    /\ at[t] \in {"acquire", "callback_acquire", "query_acquire"}
    /\ lock = {}
    /\ lock' = {t}
    /\ at' = [at EXCEPT ![t] = CASE @ = "acquire" -> "locked"
                                  [] @ = "callback_acquire" -> "callback_copy"
                                  [] @ = "query_acquire" -> "query_copy"]
    /\ UNCHANGED << lockFrame, all_data, ingested, data_callbacks, calls, cbi, handed >>

\* on_data_received inside the lock: append and trim, then the with block ends
Locked(m) ==
    /\ at[m] = "locked"
    /\ all_data' = on_data_received(all_data, handed[m][Len(handed[m])])
    /\ ingested' = Append(ingested, handed[m][Len(handed[m])])
    /\ lock' = with_exit(m)
    /\ cbi' = [cbi EXCEPT ![m] = 1]
    /\ at' = [at EXCEPT ![m] = "notify"]
    /\ UNCHANGED << lockFrame, data_callbacks, calls, handed >>

\* for callback in self.data_callbacks: the next callback is called, or the
\* list is at its end and on_data_received returns
Notify(m) ==
    /\ at[m] = "notify"
    /\ at' = [at EXCEPT ![m] = IF cbi[m] > Len(data_callbacks)
                               THEN "idle" ELSE "callback"]
    /\ UNCHANGED << lockFrame, all_data, ingested, data_callbacks, calls, lock,
                    cbi, handed >>

\* the callback runs in the reader's thread: it returns (or raises, which is
\* caught), or it calls get_latest_data of the manager
Callback(m) ==
    /\ at[m] = "callback"
    /\ \/ /\ at' = [at EXCEPT ![m] = "notify"]
          /\ cbi' = [cbi EXCEPT ![m] = @ + 1]
       \/ /\ at' = [at EXCEPT ![m] = "callback_acquire"]
          /\ UNCHANGED cbi
    /\ UNCHANGED << lockFrame, all_data, ingested, data_callbacks, calls, lock,
                    handed >>

\* get_latest_data inside the lock: data = self.all_data.copy(), then the
\* with block ends; filtering and sorting work on the copy
Copy(t) ==
    /\ at[t] \in {"callback_copy", "query_copy"}
    /\ lock' = with_exit(t)
    /\ IF at[t] = "callback_copy"
       THEN /\ at' = [at EXCEPT ![t] = "notify"]
            /\ cbi' = [cbi EXCEPT ![t] = @ + 1]
       ELSE /\ at' = [at EXCEPT ![t] = "idle"]
            /\ UNCHANGED cbi
    /\ UNCHANGED << lockFrame, all_data, ingested, data_callbacks, calls, handed >>

\* the main thread calls get_latest_data, get_stats or add_data_callback
Call ==
    /\ at[MainThread] = "idle"
    /\ calls < MaxCalls
    /\ calls' = calls + 1
    /\ \E method \in {"query_acquire", "get_stats", "add_data_callback"} :
          /\ method = "add_data_callback" =>
                 Len(data_callbacks) < Len(CallbackTable)
          /\ at' = [at EXCEPT ![MainThread] = method]
    /\ UNCHANGED << lockFrame, all_data, ingested, data_callbacks, lock, cbi, handed >>

\* get_stats: len(self.all_data) is read, no lock being taken
Stats ==
    /\ at[MainThread] = "get_stats"
    /\ at' = [at EXCEPT ![MainThread] = "idle"]
    /\ UNCHANGED << lockFrame, all_data, ingested, data_callbacks, calls, lock,
                    cbi, handed >>

\* add_data_callback: self.data_callbacks.append(callback), no lock being taken
Register ==
    /\ at[MainThread] = "add_data_callback"
    /\ data_callbacks' = Append(data_callbacks, CallbackTable[Len(data_callbacks) + 1])
    /\ at' = [at EXCEPT ![MainThread] = "idle"]
    /\ UNCHANGED << lockFrame, all_data, ingested, calls, lock, cbi, handed >>

NextLock ==
    \/ Call
    \/ Stats
    \/ Register
    \/ \E t \in Threads : Acquire(t) \/ Copy(t)
    \/ \E m \in Modules : Ingest(m) \/ Locked(m) \/ Notify(m) \/ Callback(m)

\* readers handing readings to the manager while the main thread calls it
SpecLock == Init /\ [][NextLock]_vars

(* ------------------- the frame codec called directly ------------------ *)

\* byte values of the sequences handed to modbus_crc
ByteSamples == {0, 1, 128, 255}

\* the request for one input register at address 0 of slave 1
GoldenRequest == << 1, 4, 0, 0, 0, 1 >>

\* the sequences of at most n elements of S
SeqsUpTo(S, n) == UNION {[1 .. k -> S] : k \in 0 .. n}

\* slave_addr and func_code arguments; 256 does not fit a byte
SlaveSamples == {0, 1, 255, 256}
FuncSamples == {3, 4, 6, 255}

\* start_reg and reg_count arguments
WordSamples == {0, 1, 255, 256, 2^16 - 1}

\* register values a gateway answers with
RegSamples == {0, 400, 2^16 - 1}

RECURSIVE RegBytes(_)
\* the registers as byte pairs, high byte first
RegBytes(regs) ==
    IF regs = << >> THEN << >>
    ELSE << Head(regs) \div 256, Head(regs) % 256 >> \o RegBytes(Tail(regs))

\* body followed by its checksum, low byte first
Sealed(body) == body \o modbus_crc(body)

\* what can happen to a response on its way
Damages == {"none", "crc", "cut", "short", "odd", "bare"}

\* the bytes a gateway answers with: slave, function code, byte count, the
\* registers and the checksum; undamaged, with a bit of the checksum flipped,
\* without its last byte, cut to three bytes, with one payload byte more, or
\* nothing but slave, function code and checksum
GatewayFrame(slave, func, regs, damage) ==
    LET body == << slave, func, 2 * Len(regs) >> \o RegBytes(regs)
        frame == Sealed(body)
    IN  CASE damage = "none"  -> frame
          [] damage = "crc"   -> [frame EXCEPT ![Len(frame)] = Xor(@, 1)]
          [] damage = "cut"   -> SubSeq(frame, 1, Len(frame) - 1)
          [] damage = "short" -> SubSeq(frame, 1, 3)
          [] damage = "odd"   -> Sealed(Append(body, 7))
          [] damage = "bare"  -> Sealed(<< slave, func >>)

\* the frame with bit k of its bits flipped, bit 0 being the lowest bit of
\* the first byte
Flipped(frame, k) == [frame EXCEPT ![k \div 8 + 1] = Xor(@, 2^(k % 8))]

\* how the bytes of a response reach recv: in one chunk or cut in two after
\* `cut` bytes, the last `lost` chunks not arriving before the timeout; or
\* sendall fails
Deliveries ==
    { [send_ok |-> TRUE,  cut |-> 0, lost |-> 0],
      [send_ok |-> TRUE,  cut |-> 3, lost |-> 0],
      [send_ok |-> TRUE,  cut |-> 6, lost |-> 0],
      [send_ok |-> TRUE,  cut |-> 3, lost |-> 1],
      [send_ok |-> FALSE, cut |-> 0, lost |-> 0] }

\* the chunks recv returns for a response under a delivery
Chunks(frame, d) ==
    LET all == IF d.cut = 0 \/ d.cut >= Len(frame) THEN << frame >>
               ELSE << SubSeq(frame, 1, d.cut), SubSeq(frame, d.cut + 1, Len(frame)) >>
    IN  SubSeq(all, 1, Len(all) - d.lost)

CrcCalls ==
    { [op |-> o, data |-> d] :
         o \in {"crc", "crc_redis"},
         d \in SeqsUpTo(ByteSamples, MaxData) \cup {GoldenRequest} }

BuildCalls ==
    { [op |-> "build", slave_addr |-> a, start_reg |-> s, reg_count |-> c,
       func_code |-> f] :
         a \in SlaveSamples, s \in WordSamples, c \in WordSamples, f \in FuncSamples }

ParseCalls ==
    { [op |-> "parse", slave_addr |-> a, func_code |-> f, registers |-> regs,
       damage |-> d, response |-> GatewayFrame(a, f, regs, d)] :
         a \in {1, 255}, f \in {3, 4, 6},
         regs \in SeqsUpTo(RegSamples, MaxRegs), d \in Damages }

\* responses with one bit flipped anywhere in a frame that was right
FlipCalls ==
    { [op |-> "parse", slave_addr |-> c.slave_addr, func_code |-> c.func_code,
       registers |-> c.registers, damage |-> "flip", bit |-> k,
       response |-> Flipped(c.response, k)] :
         c \in {p \in ParseCalls : p.damage = "none" /\ p.func_code \in {3, 4}},
         k \in 0 .. 8 * (5 + 2 * MaxRegs) - 1 }

\* responses that are no frames at all
RawCalls ==
    { [op |-> "parse", damage |-> "raw", response |-> r] :
         r \in SeqsUpTo(ByteSamples, MaxData) }

ReadCalls ==
    { [op |-> "read",
       sensor_config |-> [SensorConfig(1, 1) EXCEPT !.reg_count = c],
       func_code |-> f, registers |-> regs, damage |-> d,
       send_ok |-> del.send_ok,
       chunks |-> Chunks(GatewayFrame(1, f, regs, d), del)] :
         c \in {1, 2}, f \in {4, 6},
         regs \in SeqsUpTo(RegSamples, MaxRegs), d \in Damages, del \in Deliveries }

RECURSIVE SplitAt(_, _)
\* the frame as the chunks recv returns when the stream is cut after each
\* of the byte counts in cuts
SplitAt(frame, cuts) ==
    IF cuts = {} THEN << frame >>
    ELSE LET k == CHOOSE c \in cuts : \A d \in cuts : c <= d
         IN  << SubSeq(frame, 1, k) >>
                 \o SplitAt(SubSeq(frame, k + 1, Len(frame)),
                            {c - k : c \in cuts \ {k}})

\* the registers of the responses that arrive in pieces, one response for
\* each number of registers
SplitRegSamples ==
    { [i \in 1 .. n |-> IF i % 2 = 1 THEN 400 ELSE 2^16 - 1] : n \in 0 .. MaxRegs }

\* reads of an undamaged response that arrives cut at any set of places;
\* with `trailing`, bytes that are not of the response come on the stream
\* after it
SplitCalls ==
    UNION { { [op |-> "read", sensor_config |-> SensorConfig(1, 1),
               func_code |-> 4, registers |-> regs, damage |-> "none",
               send_ok |-> TRUE, cuts |-> cuts, trailing |-> t,
               chunks |-> SplitAt(GatewayFrame(1, 4, regs, "none"), cuts)
                             \o (IF t THEN << << 1 >> >> ELSE << >>)] :
                 t \in BOOLEAN, cuts \in SUBSET (1 .. 4 + 2 * Len(regs)) } :
            regs \in SplitRegSamples }

\* raw register values handed to apply_conversion_formula
RawSamples == {0, 1, 100, 250, 400, 2^16 - 1}

\* conversion_formula values and what each was written as: no override, a
\* linear override with its a and b in 1/Scale, a linear override without a
\* and b, an override of another kind, or a malformed one
OverrideSamples ==
    { [text |-> None,            kind |-> "absent"],
      [text |-> "",              kind |-> "absent"],
      [text |-> LinearTwentieth, kind |-> "linear", a |-> 249, b |-> 0],
      [text |-> LinearOffset,    kind |-> "linear", a |-> 9960, b |-> -199200],
      [text |-> LinearBare,      kind |-> "defaults"],
      [text |-> Polynomial,      kind |-> "other"],
      [text |-> Untyped,         kind |-> "other"],
      [text |-> JsonArray,       kind |-> "other"],
      [text |-> JsonNull,        kind |-> "other"],
      [text |-> Unquoted,        kind |-> "malformed"],
      [text |-> LinearTextA,     kind |-> "malformed"],
      [text |-> LinearTextAB,    kind |-> "malformed"],
      [text |-> LinearNullA,     kind |-> "malformed"] }

ConvertCalls ==
    { [op |-> "convert", raw_value |-> raw, override |-> o,
       sensor_config |-> [SensorConfig(1, 1) EXCEPT !.sensor_id = id,
                                                    !.sensor_type = type,
                                                    !.conversion_formula = o.text]] :
         raw \in RawSamples, o \in OverrideSamples,
         id \in {"tem_a1", "t_a3"}, type \in SensorTypes \cup {"other"} }

\* one call of the codec, with its arguments
InitCodec ==
    /\ Constructed
    /\ modules = << >>
    /\ storageIn = NoCall
    /\ redis = EmptyRedis
    /\ codecIn \in CrcCalls \cup BuildCalls \cup ParseCalls \cup ReadCalls
                    \cup {c \in FlipCalls : c.bit < 8 * Len(c.response)} \cup RawCalls
                    \cup ConvertCalls
                    \cup SplitCalls

\* what a call of the codec leaves alone
codecFrame == << readerVars, mainVars, managerData, lastCall, modules,
                 data_callbacks, delivered, codecIn, storageVars, sideVars >>

CrcCall ==
    /\ codecIn.op = "crc"
    /\ codecOut = << >>
    /\ codecOut' = << modbus_crc(codecIn.data) >>
    /\ UNCHANGED codecFrame

CrcRedisCall ==
    /\ codecIn.op = "crc_redis"
    /\ codecOut = << >>
    /\ codecOut' = << temperature_redis_modbus_crc(codecIn.data) >>
    /\ UNCHANGED codecFrame

BuildCall ==
    /\ codecIn.op = "build"
    /\ codecOut = << >>
    /\ codecOut' = << build_rtu_request(codecIn.slave_addr, codecIn.start_reg,
                                        codecIn.reg_count, codecIn.func_code) >>
    /\ UNCHANGED codecFrame

ParseCall ==
    /\ codecIn.op = "parse"
    /\ codecOut = << >>
    /\ codecOut' = << parse_rtu_response(codecIn.response) >>
    /\ UNCHANGED codecFrame

ReadCall ==
    /\ codecIn.op = "read"
    /\ codecOut = << >>
    /\ codecOut' = << read_sensor_data(codecIn.sensor_config, codecIn.send_ok,
                                       codecIn.chunks, 0) >>
    /\ UNCHANGED codecFrame

ConvertCall ==
    /\ codecIn.op = "convert"
    /\ codecOut = << >>
    /\ codecOut' = << apply_conversion_formula(codecIn.raw_value,
                                               codecIn.sensor_config) >>
    /\ UNCHANGED codecFrame

NextCodec ==
    CrcCall \/ CrcRedisCall \/ BuildCall \/ ParseCall \/ ReadCall \/ ConvertCall

SpecCodec == InitCodec /\ [][NextCodec]_vars

(* ------------------- reads on one connection -------------------------- *)

\* read_sensor_data calls made on the connection
MaxReads == 2

\* config.timeout, counted in sleeps of the receive loop
TimeoutSleeps == 2

\* most bytes that wait in the socket and in response_bytes together when
\* the gateway sends bytes that are no answer
MaxStream == 5

\* bytes a gateway sends that are no answer
StrayBytes == {4}

\* bytes of an answer with one register: address, function code, byte
\* count, the register, checksum
AnswerLen == 1 + 1 + 1 + 2 + 2

\* bytes the gateway writes at a time: the head of a frame, or all of it
Segments == {3, AnswerLen}

\* the register value the gateway holds when it answers the k-th request
Measured(k) == 400 + k

\* variant: the loop never gives up
TimedOutNever(since) == FALSE

\* time.time() - start_time > self.config.timeout
TimedOut(since) == since > TimeoutSleeps

\* time.sleep(0.01): the time since start_time after one more sleep
Slept(since) == IF since > TimeoutSleeps THEN since ELSE since + 1

\* index of the sensor run() reads next: the first sensor of a new cycle
\* after a failed read, the next sensor of config.sensors otherwise
Asking ==
    IF readings = << >> \/ readings[Len(readings)].data = << >>
    THEN 1
    ELSE (readings[Len(readings)].sensor % SensorsOf(1)) + 1

\* read_sensor_data returns: None, written << >>, or the reading
Returning(data) ==
    /\ readings' = Append(readings, [sensor |-> Asking, data |-> data])
    /\ rpc' = "idle"
    /\ rxBytes' = << >>

\* what a step on the connection leaves alone
wireFrame == << readerVars, mainVars, managerData, lastCall, modules,
                data_callbacks, delivered, codecVars, storageVars, lockVars, mongo >>

\* read_sensor_data up to the receive loop: the request is sent
SendRequest ==
    /\ rpc = "idle"
    /\ Len(readings) < MaxReads
    /\ pending' = IF peer = "open"
                  THEN Append(pending, [request |-> Len(readings) + 1,
                                        sensor |-> Asking, written |-> 0])
                  ELSE pending
    /\ rxBytes' = << >>
    /\ elapsed' = 0
    /\ rpc' = "recv"
    /\ UNCHANGED << wireFrame, stream, peer, readings >>

\* one pass of the receive loop in which recv returns bytes: they are
\* appended; with a complete frame the loop is left, otherwise the timeout
\* is tested and the loop sleeps
RecvData ==
    /\ rpc = "recv"
    /\ stream # << >>
    /\ stream' = << >>
    /\ LET got == Receive(rxBytes, << stream >>)
       IN  IF got.complete
           THEN /\ rxBytes' = got.bytes
                /\ rpc' = "parse"
                /\ UNCHANGED << elapsed, readings >>
           ELSE IF TimedOut(elapsed)
           THEN Returning(<< >>) /\ UNCHANGED elapsed
           ELSE /\ rxBytes' = got.bytes
                /\ elapsed' = Slept(elapsed)
                /\ UNCHANGED << rpc, readings >>
    /\ UNCHANGED << wireFrame, peer, pending >>

\* read_sensor_data after the loop: the frame is parsed and the call returns
Parse ==
    /\ rpc = "parse"
    /\ Returning(read_sensor_data(SensorConfig(1, Asking), TRUE, << rxBytes >>,
                                  Len(readings) + 1))
    /\ UNCHANGED << wireFrame, elapsed, stream, peer, pending >>

\* a step of Parse, told by the positions before and after it
Parsed == rpc = "parse" /\ rpc' = "idle"

\* one pass of the receive loop in which recv returns no bytes.  On an open
\* connection recv blocks for the socket timeout and raises socket.timeout,
\* which ends the call with None; on a closed one it returns b"" at once,
\* the timeout is tested and the loop sleeps
RecvNothing ==
    /\ rpc = "recv"
    /\ stream = << >>
    /\ IF peer = "open" \/ TimedOut(elapsed)
       THEN Returning(<< >>) /\ UNCHANGED elapsed
       ELSE /\ elapsed' = Slept(elapsed)
            /\ UNCHANGED << rpc, rxBytes, readings >>
    /\ UNCHANGED << wireFrame, stream, peer, pending >>

\* the gateway writes up to n bytes of its answer to the oldest request it
\* has not answered in full
GatewayAnswers(n) ==
    /\ peer = "open"
    /\ pending # << >>
    /\ LET q == Head(pending)
           cfg == SensorConfig(1, q.sensor)
           answer == GatewayFrame(cfg.slave_addr, cfg.func_code,
                                  << Measured(q.request) >>, "none")
           upto == IF q.written + n > Len(answer) THEN Len(answer)
                   ELSE q.written + n
       IN  /\ stream' = stream \o SubSeq(answer, q.written + 1, upto)
           /\ pending' = IF upto = Len(answer) THEN Tail(pending)
                         ELSE << [q EXCEPT !.written = upto] >> \o Tail(pending)
    /\ UNCHANGED << wireFrame, rpc, rxBytes, elapsed, peer, readings >>

\* the gateway sends a byte that is no answer
GatewaySends(b) ==
    /\ peer = "open"
    /\ Len(stream) + Len(rxBytes) < MaxStream
    /\ stream' = Append(stream, b)
    /\ UNCHANGED << wireFrame, rpc, rxBytes, elapsed, peer, pending, readings >>

\* the gateway closes the connection
GatewayCloses ==
    /\ peer = "open"
    /\ peer' = "closed"
    /\ pending' = << >>
    /\ UNCHANGED << wireFrame, rpc, rxBytes, elapsed, stream, readings >>

ReceiveLoop == RecvData \/ RecvNothing

NextAttribution ==
    \/ SendRequest
    \/ ReceiveLoop
    \/ Parse
    \/ \E n \in Segments : GatewayAnswers(n)

\* reads on a connection whose gateway answers every request, at any time
SpecAttribution == Init /\ [][NextAttribution]_vars

NextReceive ==
    \/ SendRequest
    \/ ReceiveLoop
    \/ Parse
    \/ GatewayAnswers(AnswerLen)
    \/ GatewayCloses
    \/ \E b \in StrayBytes : GatewaySends(b)

\* reads on a connection whose gateway does as it likes; a reader inside
\* read_sensor_data goes on running
SpecReceive ==
    Init /\ [][NextReceive]_vars /\ WF_vars(ReceiveLoop) /\ WF_rpc(Parsed)

(* ------------------------ temperature storage ------------------------- *)

\* most channels in a list of temperatures
MaxChannels == 2

\* temperatures are counted in tenths of a degree
TempSamples == {228, 236}

\* timestamps handed to the storage: none, an ISO timestamp and a text that
\* is none; NowText is datetime.now().isoformat()
IsoText == "2025-01-01T00:00:00"
NowText == "2025-01-02T00:00:00"
TimestampSamples == {None, IsoText, "yesterday"}

\* datetime.fromisoformat(timestamp).timestamp(), in days since IsoText
fromisoformat(timestamp) ==
    CASE timestamp = IsoText -> [score |-> 0]
      [] timestamp = NowText -> [score |-> 1]
      [] OTHER -> [raised |-> "ValueError"]

\* the commands sent to the Redis server
Commands == {"hset", "expire", "lpush", "ltrim", "zadd", "zremrangebyrank"}

\* the command raises: there is no client object, or the server fails it
Raises(env, command) == env.client = "none" \/ command \in env.faults

\* f with the entries of g added or replaced
Merged(f, g) ==
    [k \in DOMAIN f \cup DOMAIN g |-> IF k \in DOMAIN g THEN g[k] ELSE f[k]]

\* f"channel_{i+1:02d}"
ChannelKey(i) == << "channel_01", "channel_02", "channel_03" >>[i]
ChannelRawKey(i) == << "channel_01_raw", "channel_02_raw", "channel_03_raw" >>[i]

\* n / d rounded to a whole number, n and d positive
Rounded(n, d) == (2 * n + d) \div (2 * d)

\* RedisManager.set_hash: False when not connected, else one hset per entry
set_hash(env, hash, mapping) ==
    IF ~env.is_connected THEN [ok |-> FALSE, hash |-> hash]
    ELSE IF Raises(env, "hset") THEN [ok |-> FALSE, hash |-> hash]
    ELSE [ok |-> TRUE, hash |-> Merged(hash, mapping)]

\* save_realtime_data: the result and the keys afterwards
save_realtime_data(env, store, temperatures, timestamp) ==
    LET ts == IF timestamp \in {None, ""} THEN NowText ELSE timestamp
        mapping ==
            Merged(Merged([k \in {"timestamp"} |-> ts],
                          [k \in {"channel_count"} |-> Len(temperatures)]),
                   Merged([k \in {ChannelKey(i) : i \in DOMAIN temperatures} |->
                              LET i == CHOOSE i \in DOMAIN temperatures : ChannelKey(i) = k
                              IN  [tenths |-> temperatures[i]]],
                          [k \in {ChannelRawKey(i) : i \in DOMAIN temperatures} |->
                              LET i == CHOOSE i \in DOMAIN temperatures : ChannelRawKey(i) = k
                              IN  temperatures[i]]))
        result == set_hash(env, store.realtime, mapping)
        written == [store EXCEPT !.realtime = result.hash]
    IN  IF Raises(env, "expire") THEN [ok |-> FALSE, redis |-> written]
        ELSE [ ok |-> result.ok,
               redis |-> IF DOMAIN written.realtime = {} THEN written
                         ELSE [written EXCEPT !.realtime_ttl = 3600] ]

\* save_historical_data: lpush of the record, then ltrim to 1000 records
save_historical_data(env, store, temperatures, timestamp) ==
    LET ts == IF timestamp \in {None, ""} THEN NowText ELSE timestamp
        record == [timestamp |-> ts, temperatures |-> temperatures]
        pushed == [store EXCEPT !.history = << record >> \o @]
    IN  IF Raises(env, "lpush") THEN [ok |-> FALSE, redis |-> store]
        ELSE IF Raises(env, "ltrim") THEN [ok |-> FALSE, redis |-> pushed]
        ELSE [ ok |-> TRUE,
               redis |-> [pushed EXCEPT !.history =
                             SubSeq(@, 1, IF Len(@) < 1000 THEN Len(@) ELSE 1000)] ]

\* save_time_series_data: for each channel zadd of the temperature with the
\* timestamp as score, then zremrangebyrank down to 10000 members, which no
\* set of this model has
save_time_series_data(env, store, temperatures, timestamp) ==
    LET ts == IF timestamp \in {None, ""} THEN NowText ELSE timestamp
        dt == fromisoformat(ts)
        WithMember(series, i) ==
            Merged(series,
                   [k \in {ChannelKey(i)} |->
                       Merged(IF k \in DOMAIN series THEN series[k] ELSE << >>,
                              [mbr \in {temperatures[i]} |-> dt.score])])
        all == [k \in {ChannelKey(i) : i \in DOMAIN temperatures} |->
                   LET i == CHOOSE i \in DOMAIN temperatures : ChannelKey(i) = k
                   IN  WithMember(store.timeseries, i)[k]]
    IN  IF "raised" \in DOMAIN dt THEN [ok |-> FALSE, redis |-> store]
        ELSE IF temperatures = << >> THEN [ok |-> TRUE, redis |-> store]
        ELSE IF Raises(env, "zadd") THEN [ok |-> FALSE, redis |-> store]
        ELSE IF Raises(env, "zremrangebyrank")
        THEN [ ok |-> FALSE,
               redis |-> [store EXCEPT !.timeseries = WithMember(@, 1)] ]
        ELSE [ ok |-> TRUE,
               redis |-> [store EXCEPT !.timeseries = Merged(@, all)] ]

RECURSIVE Sum(_)
Sum(seq) == IF seq = << >> THEN 0 ELSE Head(seq) + Sum(Tail(seq))

\* update_statistics: min() of an empty list raises ValueError
update_statistics(env, store, temperatures) ==
    IF temperatures = << >> THEN [ok |-> FALSE, redis |-> store]
    ELSE LET min_temp == CHOOSE x \in {temperatures[c] : c \in DOMAIN temperatures} :
                             \A y \in {temperatures[c] : c \in DOMAIN temperatures} : x <= y
             max_temp == CHOOSE x \in {temperatures[c] : c \in DOMAIN temperatures} :
                             \A y \in {temperatures[c] : c \in DOMAIN temperatures} : x >= y
             First(x) == CHOOSE i \in DOMAIN temperatures :
                             /\ temperatures[i] = x
                             /\ \A j \in 1 .. i - 1 : temperatures[j] # x
             stats_mapping ==
                 Merged([ last_update     |-> NowText,
                          channel_count   |-> Len(temperatures),
                          min_temperature |-> min_temp,
                          max_temperature |-> max_temp,
                          avg_temperature |-> Rounded(Sum(temperatures),
                                                      Len(temperatures)),
                          channel_min     |-> First(min_temp),
                          channel_max     |-> First(max_temp) ],
                        [k \in {ChannelKey(i) : i \in DOMAIN temperatures} |->
                            LET i == CHOOSE i \in DOMAIN temperatures : ChannelKey(i) = k
                            IN  [tenths |-> temperatures[i]]])
             result == set_hash(env, store.statistics, stats_mapping)
         IN  [ok |-> result.ok, redis |-> [store EXCEPT !.statistics = result.hash]]

\* variant: the operations after a failed one are not attempted
save_all_data_until_failure(env, store, temperatures, timestamp) ==
    LET r1 == save_realtime_data(env, store, temperatures, timestamp)
        r2 == save_historical_data(env, r1.redis, temperatures, timestamp)
        r3 == save_time_series_data(env, r2.redis, temperatures, timestamp)
        r4 == update_statistics(env, r3.redis, temperatures)
    IN  IF ~r1.ok THEN [returned |-> FALSE, redis |-> r1.redis]
        ELSE IF ~r2.ok THEN [returned |-> FALSE, redis |-> r2.redis]
        ELSE IF ~r3.ok THEN [returned |-> FALSE, redis |-> r3.redis]
        ELSE [returned |-> r4.ok, redis |-> r4.redis]

\* save_all_data: the four operations one after the other, whatever each
\* returns; True when success_count (succeeded) is total_operations
save_all_data(env, store, temperatures, timestamp) ==
    LET r1 == save_realtime_data(env, store, temperatures, timestamp)
        r2 == save_historical_data(env, r1.redis, temperatures, timestamp)
        r3 == save_time_series_data(env, r2.redis, temperatures, timestamp)
        r4 == update_statistics(env, r3.redis, temperatures)
        succeeded == Cardinality({i \in 1 .. 4 : << r1, r2, r3, r4 >>[i].ok})
        total_operations == 4
    IN  [returned |-> succeeded = total_operations, redis |-> r4.redis]

\* the RedisManager and the server: connected or not, with or without a
\* client object, and the commands the server fails
Environments ==
    { [is_connected |-> c, client |-> cl, faults |-> f] :
         c \in BOOLEAN, cl \in {"none", "client"}, f \in SUBSET Commands }

\* the keys a session holds after one save of one temperature
PriorRedis ==
    save_all_data([is_connected |-> TRUE, client |-> "client", faults |-> {}],
                  EmptyRedis, << 228 >>, IsoText).redis

SaveCalls ==
    { [op |-> "save_all", env |-> e, temperatures |-> temps, timestamp |-> ts] :
         e \in {x \in Environments : x.is_connected => x.client = "client"},
         temps \in SeqsUpTo(TempSamples, MaxChannels),
         ts \in TimestampSamples }

\* a storage on a new or a used session, and one call of it
InitStorage ==
    /\ Constructed
    /\ modules = << >>
    /\ codecIn = NoCall
    /\ redis \in {EmptyRedis, PriorRedis}
    /\ storageIn \in SaveCalls

SaveAllCall ==
    /\ storageIn.op = "save_all"
    /\ storageOut = << >>
    /\ LET r == save_all_data(storageIn.env, redis, storageIn.temperatures,
                              storageIn.timestamp)
       IN  /\ storageOut' = << r.returned >>
           /\ redis' = r.redis
    /\ UNCHANGED << readerVars, mainVars, managerData, lastCall, modules,
                    data_callbacks, delivered, codecVars, storageIn, sideVars >>

NextStorage == SaveAllCall

SpecStorage == InitStorage /\ [][NextStorage]_vars

(* -------------------- history list to MongoDB ------------------------- *)

\* save_historical_data calls made on the session
MaxPushes == 3

\* the timestamp of the k-th record saved
StampTexts ==
    << "2025-01-01T00:00:01", "2025-01-01T00:00:02", "2025-01-01T00:00:03",
       "2025-01-01T00:00:04", "2025-01-01T00:00:05" >>

\* a connected RedisManager whose server fails no command
Serving == [is_connected |-> TRUE, client |-> "client", faults |-> {}]

\* get_synced_count: the count of the sync_progress document, 0 without one
get_synced_count(db) ==
    IF db.sync_progress = << >> THEN 0 ELSE db.sync_progress[1].count

\* update_sync_count: update_one with upsert, one document for the key
update_sync_count(db, count) ==
    [db EXCEPT !.sync_progress = << [data_type |-> "historical", count |-> count] >>]

\* the document made of a record of the list; session_prefix and synced_at
\* are left out
Document(record) ==
    [ timestamp |-> record.timestamp,
      temperatures |-> record.temperatures,
      channel_count |-> Len(record.temperatures) ]

\* sync_historical_data on connected managers: the records of the list from
\* index synced_count on are inserted and counted.  is_already_synced finds
\* no sync_status document, record_sync not being called for this data type
sync_historical_data(store, db) ==
    LET history_list == store.history
        synced_count == get_synced_count(db)
        new_records == SubSeq(history_list, synced_count + 1, Len(history_list))
        documents == [i \in DOMAIN new_records |-> Document(new_records[i])]
        inserted == [db EXCEPT !.historical_temperature = @ \o documents]
    IN  IF history_list = << >> \/ new_records = << >>
        THEN [returned |-> TRUE, mongo |-> db]
        ELSE [ returned |-> TRUE,
               mongo |-> update_sync_count(inserted, synced_count + Len(documents)) ]

syncFrame == << readerVars, mainVars, managerData, lastCall, modules,
                data_callbacks, delivered, codecVars, storageIn, storageOut,
                lockVars, wireVars >>

\* the storage saves one more record
PushRecord ==
    /\ Len(redis.history) < MaxPushes
    /\ \E temps \in SeqsUpTo(TempSamples, MaxChannels) :
          redis' = save_historical_data(Serving, redis, temps,
                                        StampTexts[Len(redis.history) + 1]).redis
    /\ UNCHANGED << syncFrame, mongo >>

\* one round of the sync loop on the history key
SyncRound ==
    /\ mongo' = sync_historical_data(redis, mongo).mongo
    /\ UNCHANGED << syncFrame, redis >>

\* a new session and a database without documents
InitSync ==
    /\ Constructed
    /\ modules = << >>
    /\ codecIn = NoCall
    /\ storageIn = NoCall
    /\ redis = EmptyRedis

NextSync == PushRecord \/ SyncRound

\* saves and sync rounds in any order; the sync loop goes on running
SpecSync == InitSync /\ [][NextSync]_vars /\ WF_vars(SyncRound)

(* ------------------------------ properties ---------------------------- *)

Range(f) == {f[x] : x \in DOMAIN f}

\* how often r occurs in the sequence
Count(seq, r) == Cardinality({i \in DOMAIN seq : seq[i] = r})

\* the sensor identifiers of module m
SensorIdsOf(m) == {SensorConfig(m, i).sensor_id : i \in 1 .. SensorsOf(m)}

C2_LastKept ==
    Len(ingested) > Capacity =>
        all_data = SubSeq(ingested, Len(ingested) - Capacity + 1, Len(ingested))

\* C2 witness: MaxIngest > Capacity readings were ingested, the evicted oldest
\* one belonging to a sensor that still has a reading in the buffer.
C2_Witness ==
    /\ Len(ingested) = MaxIngest
    /\ Len(ingested) > Capacity
    /\ \E i \in DOMAIN all_data : all_data[i].sensor_id = ingested[1].sensor_id
    /\ \E i \in DOMAIN all_data : all_data[i].sensor_id # ingested[1].sensor_id

\* a reading passes the filter of a query; emptyIsGiven tells whether an empty
\* sensor identifier counts as a given one
Matches(r, sid, st, emptyIsGiven) ==
    /\ (sid # None /\ (emptyIsGiven \/ sid # "")) => r.sensor_id = sid
    /\ st # None => r.sensor_type = st

\* a step is a get_latest_data call that leaves the buffer alone and returns
\* the matching readings of the buffer, each once, newest first
QueryStepRight(emptyIsGiven) ==
    lastCall' = "query" =>
        /\ all_data' = all_data
        /\ \A r \in Range(all_data) \cup Range(queryResult'.result) :
              Count(queryResult'.result, r) =
                  IF Matches(r, queryResult'.sensor_id, queryResult'.sensor_type,
                             emptyIsGiven)
                  THEN Count(all_data, r) ELSE 0
        /\ \A i, j \in DOMAIN queryResult'.result :
              i < j => queryResult'.result[i].timestamp >= queryResult'.result[j].timestamp

\* C3 as stated: a query returns exactly the readings whose identifier equals
\* the given one and whose type equals the given one, each once, by
\* non-increasing timestamp, and leaves the buffer unchanged.
C3_AsStated == [][QueryStepRight(TRUE)]_vars

\* C3 amended: the same, an empty sensor identifier counting as none given.
C3_QueryFilteredSorted == [][QueryStepRight(FALSE)]_vars

\* C3 witness: a query by identifier returned two readings in an order other
\* than the buffer's and left a reading of another sensor out.
C3_Witness ==
    /\ lastCall = "query"
    /\ queryResult.sensor_id = "tem_a1"
    /\ Len(queryResult.result) = 2
    /\ queryResult.result[1].timestamp > queryResult.result[2].timestamp
    /\ Len(all_data) = 3
    /\ all_data[1] = queryResult.result[2]

\* the change test of the claim, on a reading and the stored last values
ExceedsThreshold(last, r) ==
    \/ r.sensor_id \notin DOMAIN last
    \/ r.value - last[r.sensor_id] > CHANGE_THRESHOLD
    \/ last[r.sensor_id] - r.value > CHANGE_THRESHOLD

\* C4: a successfully read sensor is emitted exactly when it has no emitted
\* value yet or differs from the last emitted value by more than 0.1; the
\* stored last value changes only with an emission, to the emitted value
\* (last 20.0: 20.05 is not emitted, 20.2 is).
C4_EmitIffChanged ==
    [][\A m \in Modules :
          /\ (pc[m] = "detect" /\ pc'[m] # "detect") =>
                LET r == sensor_data[m][1]
                    last == last_values[m]
                    emitted == ingested' = Append(ingested, r)
                IN  /\ emitted <=> ExceedsThreshold(last, r)
                    /\ ~emitted => ingested' = ingested /\ last_values'[m] = last
                    /\ emitted => last_values'[m] = DictSet(last, r.sensor_id, r.value)
                    /\ (r.sensor_id \in DOMAIN last /\ last[r.sensor_id] = 20 * Scale) =>
                          /\ r.value * 20 = 401 * Scale => ~emitted
                          /\ r.value * 10 = 202 * Scale => emitted
          /\ last_values'[m] # last_values[m] => ingested' # ingested
      ]_vars

\* C4 witness: in its second cycle reader 1 has read its first sensor, whose
\* last emitted value is 20.0, and has emitted nothing for it.
C4_Witness ==
    /\ read_count[1] = 2
    /\ pc[1] = "sensors"
    /\ idx[1] = 2
    /\ cycle_emits[1] = 0
    /\ "tem_a1" \in DOMAIN last_values[1]
    /\ last_values[1]["tem_a1"] = 20 * Scale

\* C5: while the gateway has answered every request with the same register
\* frame, a finished cycle has emitted one reading per sensor if it is the
\* first cycle and none otherwise.
C5_FixedFrame ==
    \A m \in Modules :
        (steady[m] /\ read_count[m] >= 1 /\ pc[m] \in {"sleep", "loop", "done"}) =>
            cycle_emits[m] = IF read_count[m] = 1 THEN SensorsOf(m) ELSE 0

\* C5 witness: reader 1 has finished its second cycle on such a gateway.
C5_Witness == steady[1] /\ read_count[1] = 2 /\ pc[1] = "sleep"

\* C6: when a cycle has failed, the socket is closed before the next cycle
\* starts.
C6_FailureDisconnects ==
    \A m \in Modules :
        (pc[m] = "loop" /\ read_count[m] >= 1 /\ ~read_success[m]) => sock[m] = "none"

\* C7: a reader whose first connection attempt failed has terminated, has
\* begun no cycle, has emitted nothing and has made no other attempt.
C7_InitialFailureFatal ==
    \A m \in Modules :
        initFailed[m] =>
            /\ thread[m] = "finished"
            /\ pc[m] = "done"
            /\ read_count[m] = 0
            /\ connects[m] = 1
            /\ \A r \in Range(ingested) : r.sensor_id \notin SensorIdsOf(m)

\* C7 witness: the first connection attempt of a reader failed, and the
\* manager has been called again since.
C7_Witness ==
    \E m \in Modules : initFailed[m] /\ calls = MaxCalls /\ mainpc = "idle"

\* C8: once stop_all has returned, no reader thread is alive and no reader
\* holds an open connection.
C8_StopAllStopsAll ==
    (mainpc = "idle" /\ lastCall = "stop_all") =>
        \A m \in Modules : thread[m] # "alive" /\ sock[m] # "connected"

\* C9: after stop() has been requested on a started reader, the reader begins
\* no further poll cycle.
C9_NoCycleAfterStop ==
    [][\A m \in Modules : stopRequested[m] => read_count'[m] = read_count[m]]_vars

\* C10: no call of start_all or stop_all ends with an error, in whatever
\* state of the readers it is made.
C10_CallsNeverFail == mainError = FALSE

\* the callbacks run for the reading ingested by this step
InvokedNow == delivered'[1].invoked

\* C11: when a callback raises while the reading of a reader is ingested,
\* every callback registered after it is still called with that reading, the
\* reading is in the history buffer, and the reader goes on with its cycle as
\* after any emission: no failure counted, socket kept, last value stored.
C11_RaisingCallbackIsolated ==
    [][\A m \in Modules :
          (pc[m] = "detect" /\ ingested' # ingested
             /\ \E i \in DOMAIN InvokedNow : InvokedNow[i].raised) =>
             LET r == sensor_data[m][1]
             IN  /\ delivered'[1].reading = r
                 /\ \A i \in DOMAIN InvokedNow :
                       InvokedNow[i].raised =>
                          \A j \in (i + 1) .. Len(data_callbacks) :
                              \E k \in DOMAIN InvokedNow :
                                  k > i /\ InvokedNow[k].callback = data_callbacks[j]
                 /\ all_data' # << >> /\ all_data'[Len(all_data')] = r
                 /\ thread'[m] = "alive"
                 /\ pc'[m] = NextSensor(m, idx[m])
                 /\ sock'[m] = sock[m]
                 /\ read_success'[m] = read_success[m]
                 /\ fail_count'[m] = fail_count[m]
                 /\ last_values'[m] = DictSet(last_values[m], r.sensor_id, r.value)
      ]_vars

\* C11 witness: the first of two callbacks raised on a reading of the first
\* sensor, the second was called, and the reader is at its next sensor.
C11_Witness ==
    /\ delivered # << >>
    /\ Len(delivered[1].invoked) = 2
    /\ delivered[1].invoked[1].raised
    /\ ~delivered[1].invoked[2].raised
    /\ pc[1] = "sensors"
    /\ idx[1] = 2
    /\ read_success[1]

\* C12: every ingested reading is handed, within the ingesting step, to every
\* registered callback once, in registration order; callbacks are called for
\* ingested readings only.
C12_EachCallbackOnceInOrder ==
    [][/\ ingested' # ingested =>
            /\ delivered' # << >>
            /\ delivered'[1].reading = ingested'[Len(ingested')]
            /\ Len(InvokedNow) = Len(data_callbacks)
            /\ \A i \in DOMAIN data_callbacks :
                  InvokedNow[i].callback = data_callbacks[i]
       /\ delivered' # delivered => ingested' # ingested
      ]_vars

\* C12 witness: with two callbacks registered, a second reading has been
\* ingested and handed to both.
C12_Witness ==
    /\ Len(data_callbacks) = 2
    /\ Len(ingested) >= 2
    /\ delivered # << >>
    /\ Len(delivered[1].invoked) = 2
    /\ delivered[1].reading = ingested[Len(ingested)]

\* this step is the return of the manager call `call`
Returns(call) ==
    /\ lastCall' = call
    /\ mainpc' = "idle"
    /\ mainpc # "idle" \/ calls' # calls

\* C13: when add_module returns, the module_id it was called with has one
\* entry, whose reader is a new, unstarted reader object; a reader registered
\* under that module_id before is not alive and not registered any more; the
\* entries of other module_ids are as they were.
C13_AddGatewayReplaces ==
    [][Returns("add_module") =>
          LET e == modules'[Len(modules')]
              old == {i \in DOMAIN modules : modules[i].module_id = e.module_id}
          IN  /\ Cardinality({i \in DOMAIN modules' :
                                 modules'[i].module_id = e.module_id}) = 1
              /\ thread'[e.reader] = "new"
              /\ pc'[e.reader] = "idle"
              /\ read_count'[e.reader] = 0
              /\ \A i \in DOMAIN modules : modules[i].reader # e.reader
              /\ \A i \in old :
                    /\ thread'[modules[i].reader] # "alive"
                    /\ \A j \in DOMAIN modules' : modules'[j].reader # modules[i].reader
              /\ \A i \in DOMAIN modules \ old :
                    \E j \in DOMAIN modules' : modules'[j] = modules[i]
              /\ Len(modules') = Len(modules) - Cardinality(old) + 1
      ]_vars

\* everything of reader m that a step can change
ReaderOf(m) ==
    << thread[m], pc[m], running[m], sock[m], last_values[m], read_count[m],
       success_count[m], fail_count[m] >>

\* C14: when remove_module returns, at most one entry is gone from the
\* registry; if none is gone nothing has changed; if one is gone its reader
\* is not alive, and the call has left every other reader, the history
\* buffer, the callback list and the error state as they were.
C14_RemoveGatewayFrame ==
    [][Returns("remove_module") =>
          LET gone == {i \in DOMAIN modules :
                          \A j \in DOMAIN modules' : modules'[j] # modules[i]}
          IN  /\ Cardinality(gone) <= 1
              /\ gone = {} => modules' = modules /\ readerVars' = readerVars
              /\ \A i \in gone :
                    /\ modules' = Without(i)
                    /\ thread'[modules[i].reader] # "alive"
                    /\ \A m \in Modules \ {modules[i].reader} :
                          ReaderOf(m)' = ReaderOf(m)
              /\ all_data' = all_data
              /\ data_callbacks' = data_callbacks
              /\ mainError' = mainError
      ]_vars

\* C15: get_stats reports a registered module as connected only while its
\* reader thread is alive and holds a connected socket.
C15_ConnectedOnlyWhenEstablished ==
    \A i \in DOMAIN modules :
        manager_get_stats.module_stats[i].connected =>
            /\ sock[modules[i].reader] = "connected"
            /\ thread[modules[i].reader] = "alive"

\* C17: a failed sensor read leaves the reader thread alive and sends it to
\* the interval sleep; it changes the failure counter, by one, and nothing
\* else that the manager or its caller can see; a reader thread ends only at
\* a failed first connection or with running = False.
C17_ErrorsStayInReader ==
    [][\A m \in Modules :
          /\ (pc[m] = "sensors" /\ pc'[m] \notin {"sensors", "detect"}) =>
                /\ thread'[m] = "alive"
                /\ pc'[m] = "sleep"
                /\ fail_count'[m] = fail_count[m] + 1
                /\ success_count'[m] = success_count[m]
                /\ sock'[m] \in {sock[m], "none"}
                /\ running'[m] = running[m]
                /\ << all_data, ingested, delivered, mainError, lastCall, mainpc >>' =
                      << all_data, ingested, delivered, mainError, lastCall, mainpc >>
          /\ (thread[m] = "alive" /\ thread'[m] # "alive") =>
                pc[m] = "connect" \/ ~running[m]
          /\ pc[m] = "sleep" => pc'[m] \in {"sleep", "loop"}
      ]_vars

\* C17 witness: a reader whose first cycle failed is reading a sensor in its
\* second cycle.
C17_Witness ==
    \E m \in Modules :
        /\ fail_count[m] = 1
        /\ read_count[m] = 2
        /\ pc[m] = "sensors"
        /\ thread[m] = "alive"
        /\ running[m]

\* the call of the codec under way has returned
Returned(op) == codecIn.op = op /\ codecOut # << >>

RECURSIVE Reflect(_, _)
\* the low n bits of x in reverse order
Reflect(x, n) ==
    IF n = 0 THEN 0 ELSE (x % 2) * 2^(n - 1) + Reflect(x \div 2, n - 1)

\* one step of the division by x^16 + x^15 + x^2 + 1, high bit first
DivideOnce(reg) ==
    IF reg >= 2^15 THEN Xor((2 * reg) % 2^16, 2^15 + 5) ELSE (2 * reg) % 2^16

\* the eight steps of one byte
DivideStep(reg) ==
    DivideOnce(DivideOnce(DivideOnce(DivideOnce(
        DivideOnce(DivideOnce(DivideOnce(DivideOnce(reg))))))))

RECURSIVE Divide(_, _)
\* the register after the bytes of data, each taken lowest bit first
Divide(reg, data) ==
    IF data = << >> THEN reg
    ELSE LET before == Divide(reg, SubSeq(data, 1, Len(data) - 1))
         IN  Evaluated(before,
                       DivideStep(Xor(before, 256 * Reflect(data[Len(data)], 8))))

\* CRC-16/MODBUS as catalogued: polynomial 0x8005, initial value 0xFFFF,
\* input and output reflected, no final xor
Crc16Modbus(data) == Reflect(Divide(2^16 - 1, data), 16)

\* C18: for every byte sequence both modbus_crc functions return the Modbus
\* CRC-16 of the sequence as two bytes in 0..255, low byte first; for the
\* request 01 04 00 00 00 01 they return 0x31, 0xCA.
C18_ChecksumIsModbusCrc16 ==
    (Returned("crc") \/ Returned("crc_redis")) =>
        /\ codecOut[1] = << Crc16Modbus(codecIn.data) % 256,
                            Crc16Modbus(codecIn.data) \div 256 >>
        /\ \A i \in 1 .. 2 : codecOut[1][i] \in 0 .. 255
        /\ Len(codecOut[1]) = 2
        /\ codecIn.data = GoldenRequest => codecOut[1] = << 49, 202 >>

\* C18 witness: the checksum of the golden request has been computed.
C18_Witness == Returned("crc") /\ codecIn.data = GoldenRequest

\* C19: for a slave address and function code in 0..255 and a start register
\* and register count in 0..65535, build_rtu_request returns eight bytes:
\* slave address, function code, start register and register count high
\* byte first, and the checksum of those six, low byte first.
C19_RequestLayout ==
    (/\ Returned("build")
     /\ codecIn.slave_addr \in 0 .. 255
     /\ codecIn.func_code \in 0 .. 255) =>
        /\ "frame" \in DOMAIN codecOut[1]
        /\ LET frame == codecOut[1].frame
               crc == Crc16Modbus(SubSeq(frame, 1, 6))
           IN  /\ Len(frame) = 8
               /\ \A i \in 1 .. 8 : frame[i] \in 0 .. 255
               /\ frame[1] = codecIn.slave_addr
               /\ frame[2] = codecIn.func_code
               /\ 256 * frame[3] + frame[4] = codecIn.start_reg
               /\ 256 * frame[5] + frame[6] = codecIn.reg_count
               /\ frame[7] = crc % 256
               /\ frame[8] = crc \div 256

\* C19 witness: a request has been built whose start register and register
\* count have different high and low bytes.
C19_Witness ==
    /\ Returned("build")
    /\ codecIn.slave_addr = 255
    /\ codecIn.start_reg = 256
    /\ codecIn.reg_count = 255
    /\ "frame" \in DOMAIN codecOut[1]

\* C20: parsing the undamaged response of a gateway, with function code 3 or
\* 4 and at least one register, returns the slave address, the function code
\* and the registers the response was made from.
C20_ResponseRoundTrip ==
    (/\ Returned("parse")
     /\ codecIn.damage = "none"
     /\ codecIn.func_code \in {3, 4}
     /\ codecIn.registers # << >>) =>
        /\ codecIn.response[3] = 2 * Len(codecIn.registers)
        /\ codecOut[1] = [ slave_addr |-> codecIn.slave_addr,
                           func_code  |-> codecIn.func_code,
                           registers  |-> codecIn.registers,
                           valid      |-> TRUE ]

\* C20 witness: a response with function code 3 carrying two different
\* registers, one of them above 255, has been parsed.
C20_Witness ==
    /\ Returned("parse")
    /\ codecIn.damage = "none"
    /\ codecIn.func_code = 3
    /\ codecIn.registers = << 400, 2^16 - 1 >>
    /\ "registers" \in DOMAIN codecOut[1]

RECURSIVE Concat(_)
\* the chunks joined
Concat(chunks) ==
    IF chunks = << >> THEN << >> ELSE Head(chunks) \o Concat(Tail(chunks))

ChecksumValid(r) ==
    LET crc == Crc16Modbus(SubSeq(r, 1, Len(r) - 2))
    IN  /\ r[Len(r) - 1] = crc % 256
        /\ r[Len(r)] = crc \div 256

\* C21: a response that differs in one bit, at any position, from a frame
\* with function code 3 or 4 and a right checksum is rejected with the
\* checksum error.
C21_SingleBitFlipRejected ==
    (Returned("parse") /\ codecIn.damage = "flip") =>
        codecOut[1] = [error |-> "crc mismatch"]

\* C21 witness: a response whose function code lost a bit, and is no longer
\* 3 or 4, has been parsed, and so has one whose last checksum bit flipped.
C21_Witness ==
    /\ Returned("parse")
    /\ codecIn.damage = "flip"
    /\ codecIn.registers # << >>
    /\ codecIn.bit \in 8 .. 15
    /\ codecIn.response[2] \notin {3, 4}

\* C22: parse_rtu_response answers fewer than 4 bytes with the
\* frame-too-short error; otherwise last two bytes that are not the checksum
\* of the bytes before them with the checksum error; otherwise a function
\* code other than 3 and 4 with the unsupported-function error.
C22_ErrorOrder ==
    Returned("parse") =>
        LET r == codecIn.response
        IN  IF Len(r) < 4 THEN codecOut[1] = [error |-> "frame too short"]
            ELSE IF ~ChecksumValid(r) THEN codecOut[1] = [error |-> "crc mismatch"]
            ELSE IF r[2] \notin {3, 4}
                 THEN codecOut[1] = [error |-> "unsupported function code"]
                 ELSE codecOut[1] \notin { [error |-> "frame too short"],
                                           [error |-> "crc mismatch"],
                                           [error |-> "unsupported function code"] }

\* C22 witness: a response of at least 4 bytes with both a wrong checksum and
\* a function code other than 3 and 4 has been parsed.
C22_Witness ==
    /\ Returned("parse")
    /\ codecIn.damage = "crc"
    /\ codecIn.func_code = 6
    /\ Len(codecIn.response) >= 4
    /\ "error" \in DOMAIN codecOut[1]

\* C23: a response with a right checksum, function code 3 or 4 and a byte
\* count of zero is answered with the empty-payload error.
C23_ZeroByteCountIsEmpty ==
    (/\ Returned("parse")
     /\ Len(codecIn.response) >= 5
     /\ ChecksumValid(codecIn.response)
     /\ codecIn.response[2] \in {3, 4}
     /\ codecIn.response[3] = 0) =>
        codecOut[1] = [error |-> "empty data"]

\* C24: a response with a right checksum, function code 3 or 4 and an odd
\* number of bytes after the byte count is parsed without an exception and
\* without an error, into the registers of its whole byte pairs.
C24_OddTrailingByteIgnored ==
    (/\ Returned("parse")
     /\ Len(codecIn.response) >= 5
     /\ ChecksumValid(codecIn.response)
     /\ codecIn.response[2] \in {3, 4}
     /\ (Len(codecIn.response) - 5) % 2 = 1) =>
        /\ "raised" \notin DOMAIN codecOut[1]
        /\ "error" \notin DOMAIN codecOut[1]
        /\ codecOut[1].registers =
              [k \in 1 .. (Len(codecIn.response) - 5) \div 2 |->
                  256 * codecIn.response[2 * k + 2] + codecIn.response[2 * k + 3]]

\* v is the value of the built-in formula of the sensor's type for raw:
\* raw / 10, ((raw / 249) - 4) * 7.5 - 40, ((raw / 249) - 4) * 7.5, raw * 0.1;
\* the two current-loop formulas are stated multiplied by 83 * Scale
BuiltIn(v, raw, cfg) ==
    /\ v.kind = "number"
    /\ CASE cfg.sensor_type = "temperature" /\ cfg.sensor_id \in TemPrefixed ->
                10 * v.num = raw * Scale
         [] cfg.sensor_type = "temperature" /\ cfg.sensor_id \notin TemPrefixed ->
                83 * v.num = 12450 * raw - 5810 * Scale
         [] cfg.sensor_type = "pressure" ->
                83 * v.num = 12450 * raw - 2490 * Scale
         [] cfg.sensor_type \in {"wind_speed", "humidity"} ->
                10 * v.num = raw * Scale
         [] OTHER -> v.num = raw * Scale

\* C25: with a linear override {a, b} apply_conversion_formula returns
\* a * raw + b whatever the sensor type; without an override it returns the
\* built-in formula of the sensor type, raw / 10 for a temperature sensor
\* whose identifier starts with "tem_".
C25_FormulaSelection ==
    Returned("convert") =>
        LET v == codecOut[1]
            raw == codecIn.raw_value
            o == codecIn.override
        IN  /\ o.kind = "linear" => v = Num(o.a * raw + o.b)
            /\ o.kind = "absent" => BuiltIn(v, raw, codecIn.sensor_config)

\* C25 witness: a humidity sensor with a linear override has been converted
\* to a value other than that of its built-in formula.
C25_Witness ==
    /\ Returned("convert")
    /\ codecIn.override.kind = "linear"
    /\ codecIn.override.b # 0
    /\ codecIn.sensor_config.sensor_type = "humidity"
    /\ codecIn.raw_value = 250
    /\ ~BuiltIn(codecOut[1], codecIn.raw_value, codecIn.sensor_config)

\* C26: apply_conversion_formula raises for no raw value, sensor type and
\* override string, and with an override that is malformed or not of the
\* linear kind it returns the built-in formula of the sensor type.
C26_MalformedOverrideFallsBack ==
    Returned("convert") =>
        /\ "raised" \notin DOMAIN codecOut[1]
        /\ codecIn.override.kind \in {"malformed", "other"} =>
              BuiltIn(codecOut[1], codecIn.raw_value, codecIn.sensor_config)

\* the timestamp the storage operations work with
GivenTimestamp == IF storageIn.timestamp = None THEN NowText ELSE storageIn.timestamp

\* every command of the operation is carried out by the server
Served(commands) ==
    storageIn.env.client = "client" /\ commands \cap storageIn.env.faults = {}

\* the conditions under which each of the four operations succeeds
RealtimeSucceeds == storageIn.env.is_connected /\ Served({"hset", "expire"})
HistorySucceeds == Served({"lpush", "ltrim"})
SeriesSucceeds ==
    /\ GivenTimestamp # "yesterday"
    /\ storageIn.temperatures # << >> => Served({"zadd", "zremrangebyrank"})
StatisticsSucceeds ==
    storageIn.env.is_connected /\ Served({"hset"}) /\ storageIn.temperatures # << >>

\* C27: save_all_data returns True exactly when the realtime hash, the
\* history list, the time series and the statistics hash were all stored;
\* an operation that can succeed is carried out whether or not the operations
\* before it failed.
C27_SaveAllReturnsConjunction ==
    [][(storageOut = << >> /\ storageOut' # << >>) =>
          /\ storageOut'[1] =
                (RealtimeSucceeds /\ HistorySucceeds /\ SeriesSucceeds /\ StatisticsSucceeds)
          /\ RealtimeSucceeds =>
                /\ redis'.realtime["timestamp"] = GivenTimestamp
                /\ redis'.realtime_ttl = 3600
          /\ HistorySucceeds =>
                /\ Len(redis'.history) = Len(redis.history) + 1
                /\ redis'.history[1] = [ timestamp |-> GivenTimestamp,
                                         temperatures |-> storageIn.temperatures ]
          /\ SeriesSucceeds =>
                \A i \in DOMAIN storageIn.temperatures :
                    /\ ChannelKey(i) \in DOMAIN redis'.timeseries
                    /\ storageIn.temperatures[i] \in DOMAIN redis'.timeseries[ChannelKey(i)]
          /\ StatisticsSucceeds =>
                /\ redis'.statistics["channel_count"] = Len(storageIn.temperatures)
                /\ \A i \in DOMAIN storageIn.temperatures :
                      redis'.statistics["min_temperature"] <= storageIn.temperatures[i]
      ]_vars

\* C27 witness: a save on a used session has returned False because the
\* first and the third operation failed, the second and the fourth having
\* stored their data.
C27_Witness ==
    /\ storageOut = << FALSE >>
    /\ storageIn.env.is_connected
    /\ storageIn.env.faults = {"expire"}
    /\ storageIn.timestamp = "yesterday"
    /\ Len(storageIn.temperatures) = 2
    /\ Len(redis.history) = 2
    /\ "channel_02" \in DOMAIN redis.statistics

\* reader m takes a step in which read_sensor_data returns None
FailedRead(m) == pc[m] = "sensors" /\ read_success[m] /\ ~read_success'[m]

\* C28: within one cycle a reader queries its sensors one at a time in the
\* order of config.sensors; after the first failed read it queries no further
\* sensor in that cycle, and the failed read takes nothing back of what the
\* cycle has emitted.
C28_AbortAtFirstFailure ==
    [][\A m \in Modules :
          /\ (pc[m] = "sensors" /\ pc'[m] = "detect") =>
                sensor_data'[m][1].sensor_id = SensorIdTable[m][idx[m]]
          /\ (pc[m] # "sensors" /\ pc'[m] = "sensors") =>
                \/ /\ pc[m] = "loop"
                   /\ read_count'[m] = read_count[m] + 1
                   /\ idx'[m] = 1
                \/ /\ pc[m] = "detect"
                   /\ read_count'[m] = read_count[m]
                   /\ idx'[m] = idx[m] + 1
          /\ FailedRead(m) =>
                /\ pc'[m] = "sleep"
                /\ << all_data, ingested, last_values, cycle_emits >>' =
                      << all_data, ingested, last_values, cycle_emits >>
          /\ (pc[m] = "sleep" /\ pc'[m] # "sleep") =>
                pc'[m] = "loop" /\ read_count'[m] = read_count[m]
      ]_vars

\* C28 witness: the read of the second sensor failed in a cycle that had
\* emitted the first sensor's reading, which is in the buffer.
C28_Witness ==
    \E m \in Modules :
        /\ pc[m] = "sleep"
        /\ ~read_success[m]
        /\ idx[m] = 2
        /\ cycle_emits[m] = 1
        /\ \E i \in DOMAIN all_data :
              /\ all_data[i].sensor_id = SensorIdTable[m][1]
              /\ all_data[i].timestamp = read_count[m]

\* the cycle of reader m ends with this step
CycleEnds(m) == pc[m] \in {"loop", "sensors", "detect"} /\ pc'[m] = "sleep"

\* C29: a cycle adds one to read_count when it begins and one to exactly one
\* of success_count and fail_count when it ends, to success_count exactly
\* when every sensor was read without error, emitted or not; so
\* success_count + fail_count <= read_count <= success_count + fail_count + 1.
C29_CycleAccounting ==
    /\ [](\A m \in Modules :
             /\ success_count[m] + fail_count[m] <= read_count[m]
             /\ read_count[m] <= success_count[m] + fail_count[m] + 1)
    /\ [][\A m \in Modules :
             /\ read_count'[m] \in {read_count[m], read_count[m] + 1}
             /\ read_count'[m] # read_count[m] <=> pc[m] = "loop" /\ pc'[m] # "done"
                                                  /\ pc'[m] # "loop"
             /\ CycleEnds(m) =>
                   /\ success_count'[m] + fail_count'[m] =
                         success_count[m] + fail_count[m] + 1
                   /\ success_count'[m] = success_count[m] + 1 <=>
                         /\ pc[m] = "detect"
                         /\ idx[m] = SensorsOf(m)
                         /\ read_success[m]
             /\ ~CycleEnds(m) =>
                   /\ success_count'[m] = success_count[m]
                   /\ fail_count'[m] = fail_count[m]
         ]_vars

\* C29 witness: a reader has completed a second cycle that emitted nothing
\* and was counted as a success.
C29_Witness ==
    \E m \in Modules :
        /\ pc[m] = "sleep"
        /\ read_count[m] = 2
        /\ success_count[m] = 2
        /\ fail_count[m] = 0
        /\ cycle_emits[m] = 0
        /\ read_success[m]

\* the place of a sensor identifier among the sensors of its module
DeclaredAt(sid) ==
    CHOOSE i \in 1 .. 3 : \E m \in 1 .. 3 : SensorIdTable[m][i] = sid

\* the module a sensor identifier belongs to
ModuleOf(sid) ==
    CHOOSE m \in 1 .. 3 : \E i \in 1 .. 3 : SensorIdTable[m][i] = sid

\* C30: of two readings that a reader hands to on_data_received in the same
\* cycle, the one of the sensor declared first is handed over first.
C30_EmittedInDeclaredOrder ==
    \A i, j \in DOMAIN ingested :
        (/\ i < j
         /\ ModuleOf(ingested[i].sensor_id) = ModuleOf(ingested[j].sensor_id)
         /\ ingested[i].timestamp = ingested[j].timestamp) =>
            DeclaredAt(ingested[i].sensor_id) < DeclaredAt(ingested[j].sensor_id)

\* C30 witness: both sensors of a module were emitted in one cycle.
C30_Witness ==
    \E i, j \in DOMAIN ingested :
        /\ i < j
        /\ ingested[i].sensor_id = SensorIdTable[1][1]
        /\ ingested[j].sensor_id = SensorIdTable[1][2]
        /\ ingested[i].timestamp = ingested[j].timestamp


\* C34: a well-formed response that arrives cut into non-empty chunks at any
\* set of places is read exactly as the same response arriving in one piece:
\* the loop stops at the chunk that completes the 3 + byte count + 2 bytes,
\* bytes that follow on the stream are not taken, and the reading carries the
\* first register the gateway sent (or the read fails, when fewer registers
\* came than were asked for).
C34_ChunkingIndependent ==
    (Returned("read") /\ "cuts" \in DOMAIN codecIn) =>
        LET frame == GatewayFrame(1, codecIn.func_code, codecIn.registers, "none")
            whole == read_sensor_data(codecIn.sensor_config, TRUE, << frame >>, 0)
        IN  /\ codecOut[1] = whole
            /\ IF Len(codecIn.registers) >= codecIn.sensor_config.reg_count
                   /\ codecIn.registers # << >>
               THEN /\ codecOut[1] # << >>
                    /\ codecOut[1][1].raw_value = codecIn.registers[1]
               ELSE codecOut[1] = << >>

\* C34 witness: a two-register response that arrived in three chunks, with
\* other bytes behind it, has given a reading.
C34_Witness ==
    /\ Returned("read")
    /\ "cuts" \in DOMAIN codecIn
    /\ Cardinality(codecIn.cuts) = 2
    /\ codecIn.trailing
    /\ Len(codecIn.registers) = 2
    /\ codecOut[1] # << >>
    /\ codecOut[1][1].raw_value = 400

\* C37: when the join of stop() returns on its timeout with the thread still
\* alive, the caller is told: stop() does not end as it does after the thread
\* has exited (another result, an exception or a logged line), or the error
\* reaches the caller of the manager.
C37_UncleanStopSurfaced ==
    [][ ( /\ mainpc \in Joining
          /\ mainpc' # mainpc
          /\ thread[modules[mainIdx].reader] = "alive" )
        => (stop_outcome(FALSE) # stop_outcome(TRUE) \/ mainError') ]_vars

\* C39: add_module returns to its caller without an exception, for a new
\* module_id and for one that replaces a registered module.
C39_AddModuleReturns ==
    [][ (lastCall' = "add_module" /\ modules' # modules) => ~mainError' ]_vars

\* C36: a cycle that a reader begins without an established connection
\* begins with a call of connect(); if that fails the cycle is counted as
\* failed and goes to the sleep without a sensor being read, if it succeeds
\* the sensors are read; and no sensor is read through a socket whose
\* connect() failed.
C36_ReconnectBeforePolling ==
    /\ [](\A m \in Modules : pc[m] = "sensors" => sock[m] # "unconnected")
    /\ [][ \A m \in Modules :
             (read_count'[m] = read_count[m] + 1 /\ sock[m] # "connected") =>
                 /\ connects'[m] = connects[m] + 1
                 /\ IF sock'[m] = "connected"
                    THEN pc'[m] = "sensors"
                    ELSE /\ pc'[m] = "sleep"
                         /\ fail_count'[m] = fail_count[m] + 1 ]_vars

\* the readings of reader m in data, in the order they have in data
Of(m, data) == SelectSeqBy(data, "sensor_id", SensorConfig(m, 1).sensor_id)

\* the readings reader m has handed over whose append has been made
Appended(m) ==
    IF at[m] \in {"acquire", "locked"}
    THEN SubSeq(handed[m], 1, Len(handed[m]) - 1)
    ELSE handed[m]

\* C31: with several readers calling on_data_received at once, and as long
\* as no more than Capacity readings have been appended, all_data holds
\* every appended reading exactly once, in the order of the appends, and
\* the readings of each reader are in it in the order the reader handed
\* them over, none missing and none of another origin.
C31_AppendsInterleave ==
    Len(ingested) <= Capacity =>
        /\ all_data = ingested
        /\ \A i \in DOMAIN all_data : Count(all_data, all_data[i]) = 1
        /\ \A m \in Modules : Of(m, all_data) = Appended(m)
        /\ Len(all_data) = SumUpTo([m \in Modules |-> Len(Appended(m))], LastModule)

\* C31 witness: each reader has one reading in all_data and both are in
\* their second call at once, one holding the lock and one waiting for it.
C31_Witness ==
    /\ all_data = << Reading(1, 1), Reading(2, 1) >>
    /\ at[1] = "locked"
    /\ at[2] = "acquire"
    /\ Len(handed[1]) = 2
    /\ Len(handed[2]) = 2

\* C32: a thread that is inside a callback, or that waits for the lock in a
\* get_latest_data the callback has called, is not inside a with block of
\* the manager's lock; whoever holds the lock is at a step that needs
\* nothing from another thread; and as long as a call is under way some
\* thread can take a step.
C32_CallbacksRunUnlocked ==
    /\ \A m \in Modules :
          at[m] \in {"notify", "callback", "callback_acquire"} => m \notin lock
    /\ \A t \in lock : at[t] \in {"locked", "callback_copy", "query_copy"}
    /\ Cardinality(lock) <= 1
    /\ (\E t \in Threads : at[t] # "idle") => ENABLED NextLock

\* C32 witness: reader 1 is inside a callback that waits for the lock, the
\* lock being held by reader 2, which appends.
C32_Witness ==
    /\ at[1] = "callback_acquire"
    /\ at[2] = "locked"
    /\ lock = {2}

\* C33: a thread at a step that reads or writes all_data or data_callbacks
\* holds the manager's lock.
C33_SharedStateUnderLock ==
    \A t \in Threads :
        at[t] \in {"locked", "notify", "callback_copy", "query_copy", "get_stats",
                   "add_data_callback"} => t \in lock

\* C35: a read_sensor_data call that has entered its receive loop returns,
\* whatever the gateway sends or does not send.
C35_ReadTerminates == (rpc = "recv") ~> (rpc = "idle")

\* C35 witness: a read has ended without a reading on a closed connection,
\* the loop's own timeout having run out.
C35_Witness ==
    /\ rpc = "idle"
    /\ Len(readings) = 1
    /\ readings[1].data = << >>
    /\ peer = "closed"
    /\ TimedOut(elapsed)

\* C38: the reading the k-th read returns is of the sensor that read asked
\* for and carries the register value the gateway answered the k-th request
\* with, never the answer to an earlier request.
C38_ResponseAttribution ==
    \A k \in DOMAIN readings :
        readings[k].data # << >> =>
            /\ readings[k].data[1].raw_value = Measured(k)
            /\ readings[k].data[1].sensor_id =
                   SensorConfig(1, readings[k].sensor).sensor_id

\* how often the record saved with the timestamp is in the collection
Inserted(timestamp) ==
    Cardinality({i \in DOMAIN mongo.historical_temperature :
                    mongo.historical_temperature[i].timestamp = timestamp})

\* C40: no record of the history list is inserted into historical_temperature
\* more than once, and every record saved is inserted in the end.
C40_ExactlyOnce ==
    /\ [](\A k \in DOMAIN StampTexts : Inserted(StampTexts[k]) <= 1)
    /\ \A k \in DOMAIN StampTexts :
          (Len(redis.history) >= k) ~> (Inserted(StampTexts[k]) = 1)

======================================================================
